---- MODULE Spec2Model ----
(***************************************************************************)
(* nodecraft: node address / node id wire codecs and the TTL cache of the  *)
(* host-address resolver.                                                  *)
(*                                                                         *)
(* Text and wire data are sequences of bytes (naturals in 0..255).  The    *)
(* codec operators are written from src/address/impls/address.rs,          *)
(* src/address/impls/address/dns_name.rs, src/address/impls/socket_addr.rs *)
(* and src/id/impls/id.rs; the domain validator from                       *)
(* src/address/impls.rs and src/address/impls/domain.rs; the resolver      *)
(* actions from src/resolver/impls/address.rs and src/resolver/impls.rs.   *)
(***************************************************************************)
EXTENDS Integers, Sequences, FiniteSets, TLC

VARIABLES
  val,      \* codec: the value under test (a NodeAddress, a NodeId or NoVal)
  src,      \* codec: the byte buffer / stream content handed to a decoder
  op,       \* codec: the last codec operation that ran
  res,      \* codec: the result of that operation
  cache,    \* resolver: the live nodes of SkipMap<Domain, CachedSocketAddr>
  now,      \* resolver: the monotonic clock (Instant::now())
  calls,    \* resolver: the state of every resolve call
  ended,    \* resolver: how the call that ended last ended
  lookups,  \* resolver: backend invocations per domain
  nextNode, \* resolver: identity of the next skip-list node
  hist,     \* resolver: history (the node of the last insert per domain, and the
            \* node of the last remove() that found its node already unlinked)
  started,  \* resolver: number of resolve calls made so far
  record_ttl, \* resolver: HostAddrResolver.record_ttl
  picked,   \* ordering: the values under comparison, each with its input text
  ord       \* ordering: what ==, cmp and the hashes of the picked values gave

codecVars == <<val, src, op, res>>
resolverVars ==
  <<cache, now, calls, ended, lookups, nextNode, hist, started, record_ttl>>
orderVars == <<picked, ord>>
vars == <<val, src, op, res, cache, now, calls, ended, lookups, nextNode, hist,
          started, record_ttl, picked, ord>>

----------------------------------------------------------------------------
(* Bytes and text                                                          *)

DOT == 46
HYPHEN == 45
UNDERSCORE == 95
COLON == 58
CH_a == 97
CH_0 == 48
CH_c == CH_a + 2
CH_1 == CH_0 + 1

IsDigit(b) == b \in 48..57
IsAlphaUnderscore(b) == b \in 97..122 \/ b \in 65..90 \/ b = UNDERSCORE

Rep(b, n) == [i \in 1..n |-> b]

EndsWithDot(s) == Len(s) > 0 /\ s[Len(s)] = DOT

\* u16::to_be_bytes / u16::from_be_bytes
to_be_bytes(p) == <<p \div 256, p % 256>>
from_be_bytes(hi, lo) == hi * 256 + lo

Slice(s, from, to) == [i \in 1..(to - from) |-> s[from + i]]
----------------------------------------------------------------------------
(* dns_name.rs: validate and DnsName                                       *)

MAX_LABEL_LENGTH == 63
MAX_NAME_LENGTH == 253

StStart == [st |-> "Start", len |-> 0]
StNext == [st |-> "Next", len |-> 0]
StNextAfterNumericOnly == [st |-> "NextAfterNumericOnly", len |-> 0]
StErr == [st |-> "Err", len |-> 0]

AtLabelStart(state) == state.st \in {"Start", "Next", "NextAfterNumericOnly"}
InLabel(state) == state.st \in {"Subsequent", "NumericOnly", "Hyphen"}

\* one iteration of the `for ch in input` loop: the match arms in order
dns_validate_step(state, ch) ==
  CASE ch = DOT /\ (AtLabelStart(state) \/ state.st = "Hyphen") -> StErr
    [] ch = DOT /\ state.st = "Subsequent" -> StNext
    [] ch = DOT /\ state.st = "NumericOnly" -> StNextAfterNumericOnly
    [] ch # DOT /\ InLabel(state) /\ state.len >= MAX_LABEL_LENGTH -> StErr
    [] OTHER ->
         CASE AtLabelStart(state) /\ IsDigit(ch) -> [st |-> "NumericOnly", len |-> 1]
           [] state.st = "NumericOnly" /\ IsDigit(ch) ->
                [st |-> "NumericOnly", len |-> state.len + 1]
           [] AtLabelStart(state) /\ IsAlphaUnderscore(ch) ->
                [st |-> "Subsequent", len |-> 1]
           [] InLabel(state) /\ ch = HYPHEN -> [st |-> "Hyphen", len |-> state.len + 1]
           [] InLabel(state) /\ (IsAlphaUnderscore(ch) \/ IsDigit(ch)) ->
                [st |-> "Subsequent", len |-> state.len + 1]
           [] OTHER -> StErr

\* the loop over input[lo..hi] from `state`; an Err state is final (the early
\* return).  The range is halved so that the evaluation depth stays small.
RECURSIVE dns_validate_scan(_, _, _, _)
dns_validate_scan(input, lo, hi, state) ==
  IF lo > hi \/ state.st = "Err" THEN state
  ELSE IF lo = hi THEN dns_validate_step(state, input[lo])
  ELSE LET mid == (lo + hi) \div 2
           left == dns_validate_scan(input, lo, mid, state)
       IN  dns_validate_scan(input, mid + 1, hi, left)

\* validate(input): TRUE for Ok(()), FALSE for Err(InvalidDnsNameError)
dns_validate(input) ==
  IF Len(input) > MAX_NAME_LENGTH THEN FALSE
  ELSE LET state == dns_validate_scan(input, 1, Len(input), StStart)
       IN  ~(state.st \in {"Err", "Start", "Hyphen", "NumericOnly", "NextAfterNumericOnly"})

DNS_INLINE == 23

\* DnsName::try_from(&str): the stored SmolStr of an accepted name
DnsName_stored(value) ==
  IF Len(value) < DNS_INLINE
  THEN IF EndsWithDot(value) THEN value \o <<DOT>> ELSE value
  ELSE IF ~EndsWithDot(value) THEN value \o <<DOT>> ELSE value

\* str::trim_end_matches('.')
RECURSIVE trim_end_dots(_)
trim_end_dots(s) ==
  IF EndsWithDot(s) THEN trim_end_dots(SubSeq(s, 1, Len(s) - 1)) ELSE s

\* DnsName::as_str
DnsName_as_str(stored) == trim_end_dots(stored)

\* DnsName::terminate_str
terminate_str(stored) == stored
----------------------------------------------------------------------------
(* std::net: IpAddr::from_str, as used by NodeAddress::try_from            *)

RECURSIVE SplitFrom(_, _, _, _)
SplitFrom(s, sep, i, cur) ==
  IF i > Len(s) THEN <<cur>>
  ELSE IF s[i] = sep THEN <<cur>> \o SplitFrom(s, sep, i + 1, <<>>)
  ELSE SplitFrom(s, sep, i + 1, Append(cur, s[i]))

\* str::split(sep): the parts between the separators (at least one part)
Split(s, sep) == SplitFrom(s, sep, 1, <<>>)

RECURSIVE DecValue(_, _)
DecValue(d, acc) ==
  IF d = <<>> THEN acc ELSE DecValue(Tail(d), acc * 10 + (Head(d) - CH_0))

\* one decimal octet: 1..3 digits, no zero prefix, at most 255
IsV4Octet(d) ==
  /\ Len(d) \in 1..3
  /\ \A i \in 1..Len(d) : IsDigit(d[i])
  /\ (Len(d) > 1 => d[1] # CH_0)
  /\ DecValue(d, 0) <= 255

\* the longest dotted quad and the longest IPv6 text
MAX_V4_TEXT == 4 * 3 + 3
MAX_V6_TEXT == 6 * 4 + 6 + MAX_V4_TEXT

IsIpv4Text(s) ==
  /\ Len(s) <= MAX_V4_TEXT
  /\ LET parts == Split(s, DOT)
     IN  Len(parts) = 4 /\ \A i \in 1..4 : IsV4Octet(parts[i])

Ipv4Octets(s) ==
  LET parts == Split(s, DOT) IN [i \in 1..4 |-> DecValue(parts[i], 0)]

IsHexDigit(b) == IsDigit(b) \/ b \in 97..102 \/ b \in 65..70
HexDigit(b) == IF IsDigit(b) THEN b - 48 ELSE IF b >= 97 THEN b - 87 ELSE b - 55

RECURSIVE HexValue(_, _)
HexValue(d, acc) ==
  IF d = <<>> THEN acc ELSE HexValue(Tail(d), acc * 16 + HexDigit(Head(d)))

IsV6Group(d) == Len(d) \in 1..4 /\ \A i \in 1..Len(d) : IsHexDigit(d[i])

\* the 16-bit groups of a ':'-separated run; the last part may be a dotted
\* quad when allowV4 (it then stands for two groups)
V6Parts(t) == IF t = <<>> THEN <<>> ELSE Split(t, COLON)

V6RunOk(t, allowV4) ==
  LET parts == V6Parts(t)
      n == Len(parts)
  IN  \A i \in 1..n :
        \/ IsV6Group(parts[i])
        \/ (allowV4 /\ i = n /\ IsIpv4Text(parts[i]))

RECURSIVE V6GroupsOf(_, _)
V6GroupsOf(parts, i) ==
  IF i > Len(parts) THEN <<>>
  ELSE IF IsIpv4Text(parts[i])
       THEN LET o == Ipv4Octets(parts[i])
            IN  <<o[1] * 256 + o[2], o[3] * 256 + o[4]>>
       ELSE <<HexValue(parts[i], 0)>> \o V6GroupsOf(parts, i + 1)

V6RunGroups(t) == V6GroupsOf(V6Parts(t), 1)

DoubleColonAt(s) == {i \in 1..(Len(s) - 1) : s[i] = COLON /\ s[i + 1] = COLON}

V6Head(s) == LET i == CHOOSE j \in DoubleColonAt(s) : TRUE IN SubSeq(s, 1, i - 1)
V6Tail(s) == LET i == CHOOSE j \in DoubleColonAt(s) : TRUE IN SubSeq(s, i + 2, Len(s))

IsIpv6Text(s) ==
  IF Len(s) > MAX_V6_TEXT THEN FALSE
  ELSE IF DoubleColonAt(s) = {}
  THEN /\ V6RunOk(s, TRUE)
       /\ Len(V6RunGroups(s)) = 8
  ELSE /\ Cardinality(DoubleColonAt(s)) = 1
       /\ V6RunOk(V6Head(s), FALSE)
       /\ V6RunOk(V6Tail(s), TRUE)
       /\ Len(V6RunGroups(V6Head(s))) + Len(V6RunGroups(V6Tail(s))) <= 7

Ipv6Groups(s) ==
  IF DoubleColonAt(s) = {} THEN V6RunGroups(s)
  ELSE LET h == V6RunGroups(V6Head(s))
           t == V6RunGroups(V6Tail(s))
       IN  h \o Rep(0, 8 - Len(h) - Len(t)) \o t

Ipv6Octets(s) ==
  LET g == Ipv6Groups(s)
  IN  [i \in 1..16 |-> IF i % 2 = 1 THEN g[(i + 1) \div 2] \div 256
                       ELSE g[i \div 2] % 256]
----------------------------------------------------------------------------
(* Values and results                                                      *)

NoVal == [kind |-> "none", bytes |-> <<>>, port |-> 0]
V4(octets, port) == [kind |-> "v4", bytes |-> octets, port |-> port]
V6(octets, port) == [kind |-> "v6", bytes |-> octets, port |-> port]
\* Kind::Dns(DnsName(stored))
Dns(stored, port) == [kind |-> "dns", bytes |-> stored, port |-> port]
\* NodeId(SmolStr)
Id(bytes) == [kind |-> "id", bytes |-> bytes, port |-> 0]

\* st: "ok" | "err" | "panic" | "none"; n: the count returned; w: the bytes
\* written to dst (encode) or taken from the reader (stream decode)
NoRes == [st |-> "none", err |-> "", n |-> 0, w |-> 0, val |-> NoVal]
Ok(n, w, v) == [st |-> "ok", err |-> "", n |-> n, w |-> w, val |-> v]
Err(e) == [st |-> "err", err |-> e, n |-> 0, w |-> 0, val |-> NoVal]
\* an error that carries a number (UnknownAddressTag(u8), TooLarge(usize))
ErrN(e, k) == [st |-> "err", err |-> e, n |-> k, w |-> 0, val |-> NoVal]
Panic(e) == [st |-> "panic", err |-> e, n |-> 0, w |-> 0, val |-> NoVal]

\* 0-based index and half-open range checks of a Rust slice
InBounds(s, i) == 0 <= i /\ i < Len(s)
RangeOk(s, a, b) == 0 <= a /\ a <= b /\ b <= Len(s)
At(s, i) == s[i + 1]

Cont(b) == b \in 128..191

\* core::str::from_utf8(..).is_ok()
\* the next index at or after i that holds a non-ASCII byte (Len(s) + 1 if none)
NextNonAscii(s, i) ==
  LET hits == {j \in i..Len(s) : s[j] >= 128}
  IN  IF hits = {} THEN Len(s) + 1 ELSE CHOOSE j \in hits : \A k \in hits : j <= k

RECURSIVE utf8_from(_, _)
utf8_from(s, i) ==
  IF i > Len(s) THEN TRUE
  ELSE LET b == s[i]
           c(k) == IF i + k <= Len(s) THEN s[i + k] ELSE 0
       IN  CASE b < 128 -> utf8_from(s, NextNonAscii(s, i))
             [] b \in 194..223 -> Cont(c(1)) /\ utf8_from(s, i + 2)
             [] b = 224 -> c(1) \in 160..191 /\ Cont(c(2)) /\ utf8_from(s, i + 3)
             [] b \in (225..236) \cup (238..239) ->
                  Cont(c(1)) /\ Cont(c(2)) /\ utf8_from(s, i + 3)
             [] b = 237 -> c(1) \in 128..159 /\ Cont(c(2)) /\ utf8_from(s, i + 3)
             [] b = 240 ->
                  c(1) \in 144..191 /\ Cont(c(2)) /\ Cont(c(3)) /\ utf8_from(s, i + 4)
             [] b \in 241..243 ->
                  Cont(c(1)) /\ Cont(c(2)) /\ Cont(c(3)) /\ utf8_from(s, i + 4)
             [] b = 244 ->
                  c(1) \in 128..143 /\ Cont(c(2)) /\ Cont(c(3)) /\ utf8_from(s, i + 4)
             [] OTHER -> FALSE

from_utf8_ok(s) == utf8_from(s, 1)

----------------------------------------------------------------------------
(* address.rs: NodeAddress                                                 *)

PORT_SIZE == 2
TAG_SIZE == 1
DOMAIN_LEN_SIZE == 1
V6_SIZE == 16
V4_SIZE == 4
MIN_ENCODED_LEN == TAG_SIZE + V4_SIZE + PORT_SIZE
V6_ENCODED_LEN == TAG_SIZE + V6_SIZE + PORT_SIZE
INLINE == 64
READED == 5

\* DnsName::try_from(&str)
DnsName_try_from(value) ==
  IF dns_validate(value) THEN Ok(0, 0, Dns(DnsName_stored(value), 0))
  ELSE Err("InvalidDnsName")

\* impl TryFrom<(&str, u16)> for NodeAddress
try_from_host(domain, port) ==
  IF IsIpv4Text(domain) THEN Ok(0, 0, V4(Ipv4Octets(domain), port))
  ELSE IF IsIpv6Text(domain) THEN Ok(0, 0, V6(Ipv6Octets(domain), port))
  ELSE LET r == DnsName_try_from(domain)
       IN  IF r.st = "ok" THEN Ok(0, 0, Dns(r.val.bytes, port)) ELSE r

\* impl From<SocketAddr> for NodeAddress
from_socket_addr(kind, octets, port) ==
  IF kind = "v4" THEN V4(octets, port) ELSE V6(octets, port)

LBRACKET == 91
RBRACKET == 93
PLUS == 43
MAX_PORT == 256 * 256 - 1

\* the decimal digits of n ({} of an integer)
RECURSIVE DecText(_)
DecText(n) ==
  IF n < 10 THEN <<CH_0 + n>> ELSE Append(DecText(n \div 10), CH_0 + (n % 10))

\* the lower-case hex digits of n ({:x})
RECURSIVE HexText(_)
HexText(n) ==
  LET d == n % 16
      ch == IF d < 10 THEN CH_0 + d ELSE CH_a + (d - 10)
  IN  IF n < 16 THEN <<ch>> ELSE Append(HexText(n \div 16), ch)

\* the parts joined by sep
RECURSIVE Join(_, _)
Join(parts, sep) ==
  IF parts = <<>> THEN <<>>
  ELSE IF Len(parts) = 1 THEN parts[1]
  ELSE parts[1] \o <<sep>> \o Join(Tail(parts), sep)

\* Display of Ipv4Addr and of Ipv6Addr (an IPv4-mapped address as
\* "::ffff:a.b.c.d", else the first longest run of two or more zero groups as "::")
Ipv4_to_string(o) == Join([i \in 1..4 |-> DecText(o[i])], DOT)

Ipv6_to_string(o) ==
  LET g == [i \in 1..8 |-> o[2 * i - 1] * 256 + o[2 * i]]
      run(i) == CHOOSE n \in 0..(9 - i) :
                  /\ \A k \in i..(i + n - 1) : g[k] = 0
                  /\ (i + n = 9 \/ g[i + n] # 0)
      best == CHOOSE i \in 1..8 : /\ \A j \in 1..8 : run(j) <= run(i)
                                    /\ \A k \in 1..(i - 1) : run(k) < run(i)
      hex(from, to) == Join([i \in 1..(to - from + 1) |-> HexText(g[from + i - 1])], COLON)
  IN  IF (\A i \in 1..5 : g[i] = 0) /\ g[6] = MAX_PORT
      THEN <<COLON, COLON, 102, 102, 102, 102, COLON>> \o Ipv4_to_string(SubSeq(o, 13, 16))
      ELSE IF run(best) > 1
      THEN hex(1, best - 1) \o <<COLON, COLON>> \o hex(best + run(best), 8)
      ELSE hex(1, 8)

\* impl Display for NodeAddress (to_string())
to_string(a) ==
  CASE a.kind = "v4" -> Ipv4_to_string(a.bytes) \o <<COLON>> \o DecText(a.port)
    [] a.kind = "v6" ->
         <<LBRACKET>> \o Ipv6_to_string(a.bytes) \o <<RBRACKET, COLON>> \o DecText(a.port)
    [] a.kind = "dns" -> DnsName_as_str(a.bytes) \o <<COLON>> \o DecText(a.port)

\* the index of the last ':' of s, or 0 when there is none
LastColon(s) ==
  LET at == {i \in 1..Len(s) : s[i] = COLON}
  IN  IF at = {} THEN 0 ELSE CHOOSE i \in at : \A j \in at : j <= i

RECURSIVE StripZeros(_)
StripZeros(d) ==
  IF Len(d) > 1 /\ Head(d) = CH_0 THEN StripZeros(Tail(d)) ELSE d

\* decimal digits whose value fits a u16 (zero prefixes allowed)
FitsU16(d) ==
  /\ d # <<>>
  /\ \A i \in 1..Len(d) : IsDigit(d[i])
  /\ Len(StripZeros(d)) <= 5
  /\ DecValue(StripZeros(d), 0) <= MAX_PORT

\* u16::from_str: an optional '+', then digits
PortDigits(t) == IF t # <<>> /\ t[1] = PLUS THEN Tail(t) ELSE t
IsU16Text(t) == FitsU16(PortDigits(t))
U16Value(t) == DecValue(StripZeros(PortDigits(t)), 0)

\* SocketAddr::from_str: "a.b.c.d:port" or "[v6]:port" (inputs carry no scope id)
IsSocketAddrV4Text(s) ==
  LET c == LastColon(s)
  IN  /\ c > 0
      /\ IsIpv4Text(SubSeq(s, 1, c - 1))
      /\ FitsU16(SubSeq(s, c + 1, Len(s)))

IsSocketAddrV6Text(s) ==
  LET c == LastColon(s)
  IN  /\ c > 2
      /\ s[1] = LBRACKET
      /\ s[c - 1] = RBRACKET
      /\ IsIpv6Text(SubSeq(s, 2, c - 2))
      /\ FitsU16(SubSeq(s, c + 1, Len(s)))

\* impl FromStr for NodeAddress
from_str(s) ==
  LET c == LastColon(s)
      domain == SubSeq(s, 1, c - 1)
      port == SubSeq(s, c + 1, Len(s))
  IN  IF IsSocketAddrV4Text(s)
      THEN Ok(0, 0, from_socket_addr("v4", Ipv4Octets(domain), U16Value(port)))
      ELSE IF IsSocketAddrV6Text(s)
      THEN Ok(0, 0, from_socket_addr("v6", Ipv6Octets(SubSeq(s, 2, c - 2)),
                                     U16Value(port)))
      ELSE IF IsIpv4Text(s) \/ IsIpv6Text(s) THEN Err("MissingPort")
      ELSE IF c = 0 THEN Err("MissingPort")
      ELSE IF ~IsU16Text(port) THEN Err("InvalidPort")
      ELSE LET r == DnsName_try_from(domain)
           IN  IF r.st = "ok" THEN Ok(0, 0, Dns(r.val.bytes, U16Value(port)))
               ELSE r

\* encoded_len with the domain arm forgetting the length byte
encoded_len_without_length_byte(this) ==
  CASE this.kind = "v4" -> TAG_SIZE + V4_SIZE + PORT_SIZE
    [] this.kind = "v6" -> TAG_SIZE + V6_SIZE + PORT_SIZE
    [] this.kind = "dns" -> TAG_SIZE + Len(terminate_str(this.bytes)) + PORT_SIZE

\* fn encoded_len(this: &NodeAddress)
encoded_len(this) ==
  CASE this.kind = "v4" -> TAG_SIZE + V4_SIZE + PORT_SIZE
    [] this.kind = "v6" -> TAG_SIZE + V6_SIZE + PORT_SIZE
    [] this.kind = "dns" ->
         TAG_SIZE + DOMAIN_LEN_SIZE + Len(terminate_str(this.bytes)) + PORT_SIZE

\* the bytes NodeAddress::encode stores into dst, in the order of the stores
encode_stores(this) ==
  CASE this.kind = "v4" -> <<4>> \o this.bytes \o to_be_bytes(this.port)
    [] this.kind = "v6" -> <<6>> \o this.bytes \o to_be_bytes(this.port)
    [] this.kind = "dns" ->
         LET safe == terminate_str(this.bytes)
         IN  <<0>> \o <<Len(safe) % 256>> \o safe \o to_be_bytes(this.port)

\* encode with a length check that lets a dst one byte short through
encode_checking_one_byte_less(this, dstLen) ==
  IF dstLen + 1 < encoded_len(this) THEN Err("EncodeBufferTooSmall")
  ELSE LET out == encode_stores(this)
       IN  IF Len(out) > dstLen THEN Panic("index out of bounds")
           ELSE Ok(encoded_len(this), Len(out), this)

\* NodeAddress::encode(&self, dst) for a dst of dstLen bytes
encode(this, dstLen) ==
  IF dstLen < encoded_len(this) THEN Err("EncodeBufferTooSmall")
  ELSE LET out == encode_stores(this)
       IN  IF Len(out) > dstLen THEN Panic("index out of bounds")
           ELSE Ok(encoded_len(this), Len(out), this)

\* the content of dst after encode: the stores, then the untouched zeros
encode_dst(this, dstLen) ==
  IF encode(this, dstLen).st = "ok"
  THEN encode_stores(this) \o Rep(0, dstLen - Len(encode_stores(this)))
  ELSE Rep(0, dstLen)

\* NodeAddress::decode(src)
decode(s) ==
  IF Len(s) < TAG_SIZE + DOMAIN_LEN_SIZE THEN Err("Corrupted")
  ELSE
    LET tag == At(s, 0)
        cur == TAG_SIZE
    IN  CASE tag = 0 ->
               LET len == At(s, cur)
                   c2 == cur + DOMAIN_LEN_SIZE
               IN  IF Len(s) < c2 + len + PORT_SIZE THEN Err("Corrupted")
                   ELSE IF ~RangeOk(s, c2, c2 + len) THEN Panic("slice index")
                   ELSE IF ~from_utf8_ok(Slice(s, c2, c2 + len)) THEN Err("Utf8Error")
                   ELSE IF ~InBounds(s, c2 + len + 1) THEN Panic("index out of bounds")
                   ELSE LET port == from_be_bytes(At(s, c2 + len), At(s, c2 + len + 1))
                            r == try_from_host(Slice(s, c2, c2 + len), port)
                        IN  IF r.st = "ok" THEN Ok(c2 + len + 2, 0, r.val)
                            ELSE Err("ParseNodeAddressError")
          [] tag = 4 ->
               IF Len(s) < cur + V4_SIZE + PORT_SIZE THEN Err("Corrupted")
               ELSE IF ~InBounds(s, cur + V4_SIZE + 1) THEN Panic("index out of bounds")
               ELSE Ok(MIN_ENCODED_LEN, 0,
                       V4(Slice(s, cur, cur + V4_SIZE),
                          from_be_bytes(At(s, cur + V4_SIZE), At(s, cur + V4_SIZE + 1))))
          [] tag = 6 ->
               IF Len(s) < cur + V6_SIZE + PORT_SIZE THEN Err("Corrupted")
               ELSE IF ~InBounds(s, cur + V6_SIZE + 1) THEN Panic("index out of bounds")
               ELSE Ok(V6_ENCODED_LEN, 0,
                       V6(Slice(s, cur, cur + V6_SIZE),
                          from_be_bytes(At(s, cur + V6_SIZE), At(s, cur + V6_SIZE + 1))))
          [] OTHER -> ErrN("UnknownAddressTag", tag)
\* Read::read_exact of k bytes at offset pos of the stream s succeeds
read_exact_ok(s, pos, k) == pos + k <= Len(s)

\* decode_from_reader, tag 0.  checked: the build has overflow checks (a
\* debug build); otherwise usize arithmetic wraps, and a negative remaining
\* stands for the wrapped value 2^64 + remaining.
reader_domain(s, buf, checked) ==
  LET len == At(buf, 1)
      remaining == len + PORT_SIZE - READED
      addr_len == remaining + READED
      domain == Slice(s, 2, MIN_ENCODED_LEN)
                  \o Slice(s, MIN_ENCODED_LEN, MIN_ENCODED_LEN + remaining)
      name == Slice(domain, 0, addr_len - PORT_SIZE)
  IN  IF checked /\ len + PORT_SIZE < READED
      THEN Panic("attempt to subtract with overflow")
      ELSE IF addr_len < INLINE /\ ~(READED <= READED + remaining /\ READED + remaining <= INLINE)
      THEN Panic("slice index")
      ELSE IF addr_len >= INLINE /\ ~(READED <= addr_len)
      THEN Panic("slice index")
      ELSE IF ~read_exact_ok(s, MIN_ENCODED_LEN, remaining) THEN Err("UnexpectedEof")
      ELSE IF ~from_utf8_ok(name) THEN Err("Utf8Error")
      ELSE LET port == from_be_bytes(At(domain, addr_len - PORT_SIZE),
                                     At(domain, addr_len - PORT_SIZE + 1))
               r == try_from_host(name, port)
           IN  IF r.st = "ok"
               THEN Ok(MIN_ENCODED_LEN + remaining, MIN_ENCODED_LEN + remaining, r.val)
               ELSE Err("ParseNodeAddressError")

\* the bytes that the read_exact calls of decode_from_reader which succeed
\* take from a reader holding s, whatever the outcome of the decode: the first
\* call asks for MIN_ENCODED_LEN bytes, the second (tags 0 and 6) for the rest
\* of the payload; a panic ends the reading, and what a failing read_exact
\* consumed is left out (the Read contract does not tell)
reader_taken(s) ==
  IF ~read_exact_ok(s, 0, MIN_ENCODED_LEN) THEN 0
  ELSE LET more ==
             CASE s[1] = 0 ->
                    IF s[2] + PORT_SIZE < READED THEN 0
                    ELSE s[2] + PORT_SIZE - READED
               [] s[1] = 6 -> V6_ENCODED_LEN - MIN_ENCODED_LEN
               [] OTHER -> 0
       IN  IF read_exact_ok(s, MIN_ENCODED_LEN, more) THEN MIN_ENCODED_LEN + more
           ELSE MIN_ENCODED_LEN

\* decode_from_reader, tag 4
reader_v4(buf) ==
  Ok(MIN_ENCODED_LEN, MIN_ENCODED_LEN,
     V4(Slice(buf, 1, 5), from_be_bytes(At(buf, 5), At(buf, 6))))

\* decode_from_reader, tag 6
reader_v6(s, buf) ==
  IF ~read_exact_ok(s, MIN_ENCODED_LEN, V6_ENCODED_LEN - MIN_ENCODED_LEN)
  THEN Err("UnexpectedEof")
  ELSE LET remaining == Slice(s, MIN_ENCODED_LEN, V6_ENCODED_LEN)
           ipv6 == Slice(buf, 1, MIN_ENCODED_LEN)
                     \o Slice(remaining, 0, V6_ENCODED_LEN - MIN_ENCODED_LEN - 2)
       IN  Ok(V6_ENCODED_LEN, V6_ENCODED_LEN,
              V6(ipv6, from_be_bytes(At(remaining, V6_ENCODED_LEN - MIN_ENCODED_LEN - 2),
                                     At(remaining, V6_ENCODED_LEN - MIN_ENCODED_LEN - 1))))

\* NodeAddress::decode_from_reader over a reader holding the bytes s
decode_from_reader(s, checked) ==
  IF ~read_exact_ok(s, 0, MIN_ENCODED_LEN) THEN Err("UnexpectedEof")
  ELSE LET buf == Slice(s, 0, MIN_ENCODED_LEN)
       IN  CASE At(buf, 0) = 0 -> reader_domain(s, buf, checked)
             [] At(buf, 0) = 4 -> reader_v4(buf)
             [] At(buf, 0) = 6 -> reader_v6(s, buf)
             [] OTHER -> ErrN("UnknownAddressTag", At(buf, 0))

\* NodeAddress::decode_from_async_reader: the same steps, awaiting each read
decode_from_async_reader(s, checked) ==
  IF ~read_exact_ok(s, 0, MIN_ENCODED_LEN) THEN Err("UnexpectedEof")
  ELSE LET buf == Slice(s, 0, MIN_ENCODED_LEN)
       IN  CASE At(buf, 0) = 0 -> reader_domain(s, buf, checked)
             [] At(buf, 0) = 4 -> reader_v4(buf)
             [] At(buf, 0) = 6 -> reader_v6(s, buf)
             [] OTHER -> ErrN("UnknownAddressTag", At(buf, 0))

----------------------------------------------------------------------------
(* socket_addr.rs: SocketAddr                                              *)

\* SocketAddr::decode(src)
sa_decode(s) ==
  IF ~InBounds(s, 0) THEN Panic("index out of bounds")
  ELSE CASE At(s, 0) = 4 ->
              IF Len(s) < 7 THEN Err("Corrupted")
              ELSE Ok(MIN_ENCODED_LEN, 0,
                      V4(Slice(s, 1, 5), from_be_bytes(At(s, 5), At(s, 6))))
         [] At(s, 0) = 6 ->
              IF Len(s) < 19 THEN Err("Corrupted")
              ELSE Ok(V6_ENCODED_LEN, 0,
                      V6(Slice(s, 1, 17), from_be_bytes(At(s, 17), At(s, 18))))
         [] OTHER -> ErrN("UnknownAddressFamily", At(s, 0))

\* SocketAddr::decode_from_reader
sa_decode_from_reader(s) ==
  IF ~read_exact_ok(s, 0, MIN_ENCODED_LEN) THEN Err("UnexpectedEof")
  ELSE LET buf == Slice(s, 0, MIN_ENCODED_LEN)
       IN  CASE At(buf, 0) = 4 -> reader_v4(buf)
             [] At(buf, 0) = 6 -> reader_v6(s, buf)
             [] OTHER -> ErrN("UnknownAddressFamily", At(buf, 0))

----------------------------------------------------------------------------
(* id.rs: NodeId                                                           *)

MAX_SIZE == 512
LENGTH_SIZE == 2
ID_INLINE == 64

\* NodeId::new(src)
NodeId_new(s) ==
  IF Len(s) = 0 THEN Err("Empty")
  ELSE IF Len(s) > MAX_SIZE THEN ErrN("TooLarge", Len(s))
  ELSE Ok(0, 0, Id(s))

\* the other constructors: from_str (how = "from_str"), TryFrom<&[u8]>
\* ("slice"), TryFrom<Vec<u8>> ("vec") and TryFrom<String> ("string")
NodeId_try_from(how, value) ==
  CASE how = "from_str" -> NodeId_new(value)
    [] how = "slice" ->
         IF ~from_utf8_ok(value) THEN Err("Utf8Error") ELSE NodeId_new(value)
    [] how = "vec" ->
         IF ~from_utf8_ok(value) THEN Err("Utf8Error")
         ELSE IF Len(value) > MAX_SIZE THEN ErrN("TooLarge", Len(value))
         ELSE IF Len(value) = 0 THEN Err("Empty")
         ELSE Ok(0, 0, Id(value))
    [] how = "string" ->
         IF Len(value) > MAX_SIZE THEN ErrN("TooLarge", Len(value))
         ELSE IF Len(value) = 0 THEN Err("Empty")
         ELSE Ok(0, 0, Id(value))

\* NodeId::encoded_len
id_encoded_len(this) == LENGTH_SIZE + Len(this.bytes)

\* the stores of encode with the length written low byte first
id_encode_stores_little_endian(this) ==
  <<Len(this.bytes) % 256, Len(this.bytes) \div 256>> \o this.bytes

\* the bytes NodeId::encode stores into dst: write_u16(len as u16), the id
id_encode_stores(this) == to_be_bytes(Len(this.bytes) % 65536) \o this.bytes

\* NodeId::encode(&self, dst) for a dst of dstLen bytes
id_encode(this, dstLen) ==
  IF dstLen < id_encoded_len(this) THEN Err("EncodeBufferTooSmall")
  ELSE LET out == id_encode_stores(this)
       IN  IF Len(out) > dstLen THEN Panic("index out of bounds")
           ELSE Ok(id_encoded_len(this), Len(out), this)

id_encode_dst(this, dstLen) ==
  IF id_encode(this, dstLen).st = "ok"
  THEN id_encode_stores(this) \o Rep(0, dstLen - Len(id_encode_stores(this)))
  ELSE Rep(0, dstLen)

\* decode that trusts the length prefix (no check against src.len())
id_decode_trusting_prefix(s) ==
  IF Len(s) < LENGTH_SIZE THEN Err("Corrupted")
  ELSE LET len == from_be_bytes(At(s, 0), At(s, 1))
       IN  IF ~RangeOk(s, LENGTH_SIZE, LENGTH_SIZE + len) THEN Panic("slice index")
           ELSE IF ~from_utf8_ok(Slice(s, LENGTH_SIZE, LENGTH_SIZE + len))
           THEN Err("Utf8Error")
           ELSE LET r == NodeId_new(Slice(s, LENGTH_SIZE, LENGTH_SIZE + len))
                IN  IF r.st = "ok" THEN Ok(LENGTH_SIZE + len, 0, r.val) ELSE r

\* NodeId::decode(src)
id_decode(s) ==
  IF Len(s) < LENGTH_SIZE THEN Err("Corrupted")
  ELSE LET len == from_be_bytes(At(s, 0), At(s, 1))
       IN  IF Len(s) < LENGTH_SIZE + len THEN Err("Corrupted")
           ELSE IF ~RangeOk(s, LENGTH_SIZE, LENGTH_SIZE + len) THEN Panic("slice index")
           ELSE IF ~from_utf8_ok(Slice(s, LENGTH_SIZE, LENGTH_SIZE + len))
           THEN Err("Utf8Error")
           ELSE LET r == NodeId_new(Slice(s, LENGTH_SIZE, LENGTH_SIZE + len))
                IN  IF r.st = "ok" THEN Ok(LENGTH_SIZE + len, 0, r.val) ELSE r

\* decode_from_reader without its `len == 0` check
id_decode_from_reader_accepting_empty(s) ==
  IF ~read_exact_ok(s, 0, LENGTH_SIZE) THEN Err("UnexpectedEof")
  ELSE LET len == from_be_bytes(At(s, 0), At(s, 1))
       IN  IF len > MAX_SIZE THEN ErrN("TooLarge", len)
           ELSE IF ~read_exact_ok(s, LENGTH_SIZE, len) THEN Err("UnexpectedEof")
           ELSE IF ~from_utf8_ok(Slice(s, LENGTH_SIZE, LENGTH_SIZE + len))
           THEN Err("Utf8Error")
           ELSE Ok(LENGTH_SIZE + len, LENGTH_SIZE + len,
                   Id(Slice(s, LENGTH_SIZE, LENGTH_SIZE + len)))

\* NodeId::decode_from_reader over a reader holding the bytes s
id_decode_from_reader(s) ==
  IF ~read_exact_ok(s, 0, LENGTH_SIZE) THEN Err("UnexpectedEof")
  ELSE LET len == from_be_bytes(At(s, 0), At(s, 1))
       IN  IF len = 0 THEN Err("Empty")
           ELSE IF len > MAX_SIZE THEN ErrN("TooLarge", len)
           ELSE IF len < ID_INLINE /\ ~(len <= ID_INLINE) THEN Panic("slice index")
           ELSE IF ~read_exact_ok(s, LENGTH_SIZE, len) THEN Err("UnexpectedEof")
           ELSE IF ~from_utf8_ok(Slice(s, LENGTH_SIZE, LENGTH_SIZE + len))
           THEN Err("Utf8Error")
           ELSE Ok(LENGTH_SIZE + len, LENGTH_SIZE + len,
                   Id(Slice(s, LENGTH_SIZE, LENGTH_SIZE + len)))
----------------------------------------------------------------------------
(* address/impls.rs: validate;  address/impls/domain.rs: Domain             *)

\* one iteration of the `while i < len` loop with a label limit one too high
validate_step_allowing_64(state, ch) ==
  CASE ch = DOT /\ (AtLabelStart(state) \/ state.st = "Hyphen") -> StErr
    [] ch = DOT /\ state.st = "Subsequent" -> StNext
    [] ch = DOT /\ state.st = "NumericOnly" -> StNextAfterNumericOnly
    [] ch # DOT /\ InLabel(state) /\ state.len > MAX_LABEL_LENGTH -> StErr
    [] OTHER ->
         CASE AtLabelStart(state) /\ IsDigit(ch) -> [st |-> "NumericOnly", len |-> 1]
           [] state.st = "NumericOnly" /\ IsDigit(ch) ->
                [st |-> "NumericOnly", len |-> state.len + 1]
           [] AtLabelStart(state) /\ IsAlphaUnderscore(ch) ->
                [st |-> "Subsequent", len |-> 1]
           [] InLabel(state) /\ ch = HYPHEN -> [st |-> "Hyphen", len |-> state.len + 1]
           [] InLabel(state) /\ (IsAlphaUnderscore(ch) \/ IsDigit(ch)) ->
                [st |-> "Subsequent", len |-> state.len + 1]
           [] OTHER -> StErr

\* one iteration of the `while i < len` loop: the match arms in order
validate_step(state, ch) ==
  CASE ch = DOT /\ (AtLabelStart(state) \/ state.st = "Hyphen") -> StErr
    [] ch = DOT /\ state.st = "Subsequent" -> StNext
    [] ch = DOT /\ state.st = "NumericOnly" -> StNextAfterNumericOnly
    [] ch # DOT /\ InLabel(state) /\ state.len >= MAX_LABEL_LENGTH -> StErr
    [] OTHER ->
         CASE AtLabelStart(state) /\ IsDigit(ch) -> [st |-> "NumericOnly", len |-> 1]
           [] state.st = "NumericOnly" /\ IsDigit(ch) ->
                [st |-> "NumericOnly", len |-> state.len + 1]
           [] AtLabelStart(state) /\ IsAlphaUnderscore(ch) ->
                [st |-> "Subsequent", len |-> 1]
           [] InLabel(state) /\ ch = HYPHEN -> [st |-> "Hyphen", len |-> state.len + 1]
           [] InLabel(state) /\ (IsAlphaUnderscore(ch) \/ IsDigit(ch)) ->
                [st |-> "Subsequent", len |-> state.len + 1]
           [] OTHER -> StErr

\* the loop over input[lo..hi] from `state`; an Err state is final (the early
\* return).  The range is halved so that the evaluation depth stays small.
RECURSIVE validate_scan(_, _, _, _)
validate_scan(input, lo, hi, state) ==
  IF lo > hi \/ state.st = "Err" THEN state
  ELSE IF lo = hi THEN validate_step(state, input[lo])
  ELSE LET mid == (lo + hi) \div 2
           left == validate_scan(input, lo, mid, state)
       IN  validate_scan(input, mid + 1, hi, left)

\* validate whose final check lets NextAfterNumericOnly through
validate_forgetting_numeric_before_root(input) ==
  IF Len(input) > MAX_NAME_LENGTH \/ Len(input) = 0 THEN FALSE
  ELSE IF input[1] = DOT /\ Len(input) = 1 THEN TRUE
  ELSE LET state == validate_scan(input, 1, Len(input), StStart)
       IN  ~(state.st \in {"Err", "Start", "Hyphen", "NumericOnly"})

\* validate(input): TRUE for Ok(()), FALSE for Err(ParseDomainError)
validate(input) ==
  IF Len(input) > MAX_NAME_LENGTH \/ Len(input) = 0 THEN FALSE
  ELSE IF input[1] = DOT /\ Len(input) = 1 THEN TRUE
  ELSE LET state == validate_scan(input, 1, Len(input), StStart)
       IN  ~(state.st \in {"Err", "Start", "Hyphen", "NumericOnly", "NextAfterNumericOnly"})

\* <[u8]>::is_ascii
is_ascii(d) == \A i \in 1..Len(d) : d[i] < 128

Domain(stored) == [kind |-> "domain", bytes |-> stored, port |-> 0]

\* the outcome of Uts46::to_ascii on a non-ASCII input: an error or a name
ToAsciiErr == [ok |-> FALSE, name |-> <<>>]
ToAsciiOk(name) == [ok |-> TRUE, name |-> name]

\* Domain::try_from_inner(domain); to_ascii is what Uts46::to_ascii returns
Domain_try_from_inner(domain, to_ascii) ==
  IF is_ascii(domain)
  THEN IF ~validate(domain) THEN Err("ParseDomainError")
       ELSE IF EndsWithDot(domain) THEN Ok(0, 0, Domain(domain))
       ELSE Ok(0, 0, Domain(domain \o <<DOT>>))
  ELSE IF ~to_ascii.ok THEN Err("ParseDomainError")
       ELSE IF EndsWithDot(to_ascii.name) THEN Ok(0, 0, Domain(to_ascii.name))
       ELSE Ok(0, 0, Domain(to_ascii.name \o <<DOT>>))

\* Domain::as_str and Domain::fqdn_str
Domain_as_str(this) == trim_end_dots(this.bytes)
Domain_fqdn_str(this) == this.bytes
----------------------------------------------------------------------------

(* The codec machine: build a value, encode it, hand bytes to a decoder     *)

MaxPad == 24
MaxCut == 3
MaxRaw == 2
MaxIdLen == 3

Pad(n) == Rep(CH_a, n)

\* what follows the run of 'a's in a host name given to try_from
Suffixes ==
  { <<>>, <<DOT>>, <<DOT, CH_c>>, <<DOT, CH_c, DOT>>, <<DOT, DOT>>,
    <<HYPHEN>>, <<DOT, CH_1>> }

Label63 == Rep(CH_a, MAX_LABEL_LENGTH)

\* names of 252 and 253 bytes (at the limit of MAX_NAME_LENGTH)
LongHosts ==
  { Label63 \o <<DOT>> \o Label63 \o <<DOT>> \o Label63 \o <<DOT>> \o Rep(CH_a, k) :
      k \in {60, 61} }

IpHosts == { <<CH_1, DOT, CH_1, DOT, CH_1, DOT, CH_1>>, <<COLON, COLON, CH_1>> }

Hosts ==
  { Pad(n) \o x : n \in 0..MaxPad, x \in Suffixes }
    \cup { h \o x : h \in LongHosts, x \in {<<>>, <<DOT>>} }
    \cup IpHosts

Ports == {80, 8080}

SocketAddrs ==
  { V4(<<127, 0, 0, 1>>, p) : p \in Ports }
    \cup { V4(<<0, 4, 6, 255>>, p) : p \in Ports }
    \cup { V6([i \in 1..16 |-> IF i = 16 THEN 1 ELSE 0], p) : p \in Ports }
    \cup { V6([i \in 1..16 |-> (16 * i + 1) % 256], p) : p \in Ports }

IdTexts == { Rep(CH_a, n) : n \in (0..MaxIdLen) \cup {63, 64, 65, MAX_SIZE, MAX_SIZE + 1} }

RawBytes == {0, 1, 4, 6, 200, CH_a}

RECURSIVE SeqsUpTo(_, _)
SeqsUpTo(S, n) ==
  IF n = 0 THEN {<<>>}
  ELSE LET shorter == SeqsUpTo(S, n - 1)
       IN  shorter \cup { Append(t, b) : t \in shorter, b \in S }

\* byte sequences that did not come from an encoder
RawInputs ==
  SeqsUpTo(RawBytes, MaxRaw)
    \cup { <<0, k>> \o Rep(CH_a, 5) : k \in {0, 1, 2, 3, 4} }
    \cup { <<0, 3, 200, CH_a, CH_a, 0, 80>>, <<0, 2, 195, 169, 0, 80, 0>>,
           <<0, 1, 0>>, <<0, 1>>, <<1, 0, 0, 0>>, <<200, 0, 0, 0, 0, 0, 80>>,
           <<2, 1>> \o Rep(CH_a, MAX_SIZE + 1), <<0, 1, 200>>,
           <<0, 7, CH_1, DOT, CH_1, DOT, CH_1, DOT, CH_1, 0, 80>> }

\* "www.example.com"
WwwExampleCom ==
  <<119, 119, 119, DOT, 101, 120, CH_a, 109, 112, 108, 101, DOT, CH_c, 111, 109>>

\* the host part of a text given to from_str
TextHosts ==
  { WwwExampleCom, WwwExampleCom \o <<DOT>>, Pad(DNS_INLINE), <<HYPHEN, CH_a>>,
    <<CH_1, DOT, CH_1, DOT, CH_1, DOT, CH_1>>,
    <<LBRACKET, COLON, COLON, CH_1, RBRACKET>> }

\* "8080", "80", "+80", "65536" and the empty port
PortTexts ==
  { <<CH_0 + 8, CH_0, CH_0 + 8, CH_0>>, <<CH_0 + 8, CH_0>>,
    <<PLUS, CH_0 + 8, CH_0>>, <<CH_0 + 6, CH_0 + 5, CH_0 + 5, CH_0 + 3, CH_0 + 6>>,
    <<>> }

\* "host:port" texts, and texts with no port
AddrTexts ==
  { h \o <<COLON>> \o p : h \in TextHosts, p \in PortTexts }
    \cup { WwwExampleCom, <<CH_1, DOT, CH_1, DOT, CH_1, DOT, CH_1>>,
           <<COLON, COLON, CH_1>> }

\* "com"
Com == <<CH_c, 111, 109>>

\* names given to Domain::try_from: "", ".", ".a", "a-b", "a_b", "_a", "A1",
\* "a:b", "1a", "1-1", "a-.c", "1.2.3.4", "x.1", "123.", "x.1.", "1.2.3.4.com",
\* "x.1.com", labels of 63 and 64 bytes, a label of 63 digits
DomainSamples ==
  { <<>>, <<DOT>>, <<DOT, CH_a>>, <<CH_a, HYPHEN, CH_a + 1>>,
    <<CH_a, UNDERSCORE, CH_a + 1>>, <<UNDERSCORE, CH_a>>, <<65, CH_1>>,
    <<CH_a, COLON, CH_a + 1>>, <<CH_1, CH_a>>, <<CH_1, HYPHEN, CH_1>>,
    <<CH_a, HYPHEN, DOT, CH_c>>,
    <<CH_1, DOT, CH_0 + 2, DOT, CH_0 + 3, DOT, CH_0 + 4>>,
    <<120, DOT, CH_1>>, <<CH_1, CH_0 + 2, CH_0 + 3, DOT>>,
    <<120, DOT, CH_1, DOT>>,
    <<CH_1, DOT, CH_0 + 2, DOT, CH_0 + 3, DOT, CH_0 + 4, DOT>> \o Com,
    <<120, DOT, CH_1, DOT>> \o Com,
    Label63, Label63 \o <<CH_a>>, Label63 \o <<DOT, CH_c>>,
    Label63 \o <<CH_a, DOT, CH_c>>, Label63 \o <<HYPHEN, DOT, CH_c>>,
    Rep(CH_1, MAX_LABEL_LENGTH) \o <<DOT, CH_c>>,
    Rep(CH_1, MAX_LABEL_LENGTH + 1) \o <<DOT, CH_c>> }

DomainInputs == Hosts \cup DomainSamples

\* two non-ASCII inputs (UTF-8 of one CJK character, alone and before ".c")
UnicodeInputs == { <<230, 181, 139>>, <<230, 181, 139, DOT, CH_c>> }

\* what Uts46::to_ascii may answer for them
ToAsciiOutcomes ==
  { ToAsciiErr, ToAsciiOk(<<120, 110, HYPHEN, HYPHEN, CH_a>>),
    ToAsciiOk(<<120, 110, HYPHEN, HYPHEN, CH_a, DOT, CH_c>>),
    ToAsciiOk(<<120, 110, HYPHEN, HYPHEN, CH_a, DOT>>) }

IsAddr(v) == v.kind \in {"v4", "v6", "dns"}

CodecInit ==
  /\ val = NoVal
  /\ src = <<>>
  /\ op = "init"
  /\ res = NoRes

\* NodeAddress::try_from((host, port))
AddrTryFrom(h, p) ==
  /\ op = "init"
  /\ UNCHANGED <<resolverVars, orderVars>>
  /\ res' = try_from_host(h, p)
  /\ val' = res'.val
  /\ src' = <<>>
  /\ op' = "try_from"

\* text.parse::<NodeAddress>()
AddrFromStr(s) ==
  /\ op = "init"
  /\ UNCHANGED <<resolverVars, orderVars>>
  /\ res' = from_str(s)
  /\ val' = res'.val
  /\ src' = <<>>
  /\ op' = "from_str"

\* Domain::try_from(d): src keeps the bytes handed to try_from_inner
DomainTryFrom(d, to_ascii) ==
  /\ op = "init"
  /\ UNCHANGED <<resolverVars, orderVars>>
  /\ res' = Domain_try_from_inner(d, to_ascii)
  /\ val' = res'.val
  /\ src' = d
  /\ op' = "domain_try_from"

\* a.to_string().parse::<NodeAddress>(): src keeps the text
AddrReparse ==
  /\ op \in {"try_from", "from_str", "from_socket_addr"}
  /\ UNCHANGED <<resolverVars, orderVars>>
  /\ IsAddr(val)
  /\ src' = to_string(val)
  /\ res' = from_str(src')
  /\ op' = "reparse"
  /\ UNCHANGED val

\* NodeAddress::from(SocketAddr)
AddrFromSocketAddr(a) ==
  /\ op = "init"
  /\ UNCHANGED <<resolverVars, orderVars>>
  /\ val' = from_socket_addr(a.kind, a.bytes, a.port)
  /\ res' = Ok(0, 0, val')
  /\ src' = <<>>
  /\ op' = "from_socket_addr"

\* NodeId::new(text)
IdNew(t) ==
  /\ op = "init"
  /\ UNCHANGED <<resolverVars, orderVars>>
  /\ res' = NodeId_new(t)
  /\ val' = res'.val
  /\ src' = <<>>
  /\ op' = "id_new"

\* text.parse::<NodeId>() and NodeId::try_from(bytes / Vec / String): src
\* keeps the bytes handed over (a &str or String is valid UTF-8)
IdTryFrom(how, b) ==
  /\ op = "init"
  /\ UNCHANGED <<resolverVars, orderVars>>
  /\ how \in {"from_str", "string"} => from_utf8_ok(b)
  /\ res' = NodeId_try_from(how, b)
  /\ val' = res'.val
  /\ src' = b
  /\ op' = "id_try_from"

\* v.encode(&mut dst) with dst.len() = encoded_len + d, or an empty dst
AddrEncode(dstLen) ==
  /\ UNCHANGED <<resolverVars, orderVars>>
  /\ op \in {"try_from", "from_str", "from_socket_addr"}
  /\ IsAddr(val)
  /\ res' = encode(val, dstLen)
  /\ src' = encode_dst(val, dstLen)
  /\ op' = "encode"
  /\ UNCHANGED val

IdEncode(dstLen) ==
  /\ UNCHANGED <<resolverVars, orderVars>>
  /\ op = "id_new"
  /\ val.kind = "id"
  /\ res' = id_encode(val, dstLen)
  /\ src' = id_encode_dst(val, dstLen)
  /\ op' = "id_encode"
  /\ UNCHANGED val

\* bytes arrive that no encoder of this program produced
Receive(b) ==
  /\ op = "init"
  /\ UNCHANGED <<resolverVars, orderVars>>
  /\ src' = b
  /\ val' = NoVal
  /\ res' = NoRes
  /\ op' = "receive"

\* the last k bytes of an encoding are lost
Truncate(k) ==
  /\ UNCHANGED <<resolverVars, orderVars>>
  /\ op \in {"encode", "id_encode"}
  /\ res.st = "ok"
  /\ k <= Len(src)
  /\ src' = SubSeq(src, 1, Len(src) - k)
  /\ res' = NoRes
  /\ op' = "truncate"
  /\ UNCHANGED val

\* more bytes follow the encoding in the buffer or stream
Extend(b) ==
  /\ UNCHANGED <<resolverVars, orderVars>>
  /\ op \in {"encode", "id_encode"}
  /\ res.st = "ok"
  /\ src' = src \o b
  /\ res' = NoRes
  /\ op' = "extend"
  /\ UNCHANGED val

\* the driver drops the value and the buffer and starts over
Reset ==
  /\ UNCHANGED <<resolverVars, orderVars>>
  /\ op # "init"
  /\ val' = NoVal
  /\ src' = <<>>
  /\ op' = "init"
  /\ res' = NoRes

\* a decoder runs on the bytes of src
Ran(name, r) ==
  /\ UNCHANGED <<resolverVars, orderVars>>
  /\ op \in {"encode", "id_encode", "receive", "truncate", "extend"}
  /\ op' = name
  /\ res' = r
  /\ UNCHANGED <<val, src>>

Decode == Ran("decode", decode(src))
DecodeFromReader == \E checked \in BOOLEAN :
  Ran("decode_from_reader", decode_from_reader(src, checked))
DecodeFromAsyncReader == \E checked \in BOOLEAN :
  Ran("decode_from_async_reader", decode_from_async_reader(src, checked))
SaDecode == Ran("sa_decode", sa_decode(src))
SaDecodeFromReader == Ran("sa_decode_from_reader", sa_decode_from_reader(src))
IdDecode == Ran("id_decode", id_decode(src))
IdDecodeFromReader == Ran("id_decode_from_reader", id_decode_from_reader(src))

CodecNext ==
  \/ \E h \in Hosts, p \in Ports : AddrTryFrom(h, p)
  \/ \E s \in AddrTexts : AddrFromStr(s)
  \/ \E a \in SocketAddrs : AddrFromSocketAddr(a)
  \/ AddrReparse
  \/ \E d \in DomainInputs : DomainTryFrom(d, ToAsciiErr)
  \/ \E d \in UnicodeInputs, a \in ToAsciiOutcomes : DomainTryFrom(d, a)
  \/ \E t \in IdTexts : IdNew(t)
  \/ \E how \in {"from_str", "slice", "vec", "string"},
        b \in IdTexts \cup {<<200>>} : IdTryFrom(how, b)
  \/ \E d \in {-1, 0, 1} : AddrEncode(encoded_len(val) + d)
  \/ AddrEncode(0)
  \/ \E d \in {-1, 0, 1} : IdEncode(id_encoded_len(val) + d)
  \/ IdEncode(0)
  \/ \E b \in RawInputs : Receive(b)
  \/ \E k \in 1..MaxCut : Truncate(k)
  \/ \E b \in {<<0>>, <<CH_a, CH_a, CH_a>>} : Extend(b)
  \/ Decode
  \/ DecodeFromReader
  \/ DecodeFromAsyncReader
  \/ SaDecode
  \/ SaDecodeFromReader
  \/ IdDecode
  \/ IdDecodeFromReader
  \/ Reset
----------------------------------------------------------------------------
(* resolver/impls/address.rs: HostAddrResolver over SkipMap<Domain, _>      *)

MaxTime == 2
MaxStarts == 3
MaxTtl == 1

\* the concurrent callers of resolve, and the domain names they ask for
Calls == {"c1", "c2"}
Domains == {"a.com", "b.org"}

\* a SocketAddr
Sock(ip, port) == [ip |-> ip, port |-> port]
NoSock == [ip |-> "", port |-> 0]

\* what to_socket_addrs can answer: an I/O error, or a list of addresses
Answers == {<<"error">>, <<>>, <<"ip2", "ip1">>}

\* the addresses handed to resolve: a socket address, or a domain and a port
\* (the first domain is asked for under both ports)
Either(kind, name, ip, port) == [kind |-> kind, name |-> name, ip |-> ip, port |-> port]
Addresses ==
  { Either("ip", "", "ip1", 80) }
    \cup { Either("domain", d, "", 80) : d \in Domains }
    \cup { Either("domain", "a.com", "", p) : p \in Ports }

NoEntry == [id |-> 0, key |-> "", val |-> NoSock, born |-> 0, ttl |-> 0]

\* an entry built with a zero ttl instead of the ttl it is given
CachedSocketAddr_new_zero_ttl(id, key, v, ttl, t) ==
  [id |-> id, key |-> key, val |-> v, born |-> t, ttl |-> 0]

\* CachedSocketAddr::new(val, ttl), as the node `id` of the map under `key`
CachedSocketAddr_new(id, key, v, ttl, t) ==
  [id |-> id, key |-> key, val |-> v, born |-> t, ttl |-> ttl]

\* is_expired with the comparison off by one: expired already at elapsed = ttl
is_expired_at_ttl(e, t) == t - e.born >= e.ttl

\* CachedSocketAddr::is_expired: self.born.elapsed() > self.ttl
is_expired(e, t) == t - e.born > e.ttl

\* SkipMap::get(key): the live node of that key, if any
SkipMap_get(map, key) ==
  IF \E e \in map : e.key = key THEN CHOOSE e \in map : e.key = key ELSE NoEntry

\* an insert that links the new node next to an old node of the same key
SkipMap_insert_keeping_old(map, node) == map \cup {node}

\* SkipMap::insert(key, value): an existing node of the key is removed first
SkipMap_insert(map, node) == {e \in map : e.key # node.key} \cup {node}

\* a removal by key: whatever node the map holds under the key of the handle
Entry_remove_by_key(map, ent) == {e \in map : e.key # ent.key}

\* the else branch without its ent.remove()
Entry_remove_forgotten(map, ent) == map

\* Entry::remove(): unlinks that very node, if it is still in the map
Entry_remove(map, ent) == {e \in map : e.id # ent.id}

\* a call that is not running: no address, no entry handle, no answer
IdleCall ==
  [pc |-> "idle", addr |-> Either("none", "", "", 0), ent |-> NoEntry,
   answer |-> <<>>, out |-> NoSock, wrote |-> 0]

\* how a call ended: Ok(addr) at one of the three return sites of resolve
\* ("ip", "cache", "backend"), Err(e), or dropped by its caller
NoEnd == [call |-> "", st |-> "none", sock |-> NoSock, site |-> ""]
OkSock(c, a, site) == [call |-> c, st |-> "ok", sock |-> a, site |-> site]
ErrSock(c, e) == [call |-> c, st |-> e, sock |-> NoSock, site |-> ""]

ResolverInit ==
  /\ cache = {}
  /\ now = 0
  /\ calls = [c \in Calls |-> IdleCall]
  /\ ended = NoEnd
  /\ lookups = [d \in Domains |-> 0]
  /\ nextNode = 1
  /\ hist = [last |-> [d \in Domains |-> 0], stale |-> 0]
  /\ started = 0
  /\ record_ttl \in 0..MaxTtl

\* a resolve that also caches the address of the Ip kind it passes through
Start_caching_ip(c, a) ==
  /\ calls[c].pc = "idle"
  /\ started < MaxStarts
  /\ started' = started + 1
  /\ IF a.kind = "ip"
     THEN /\ ended' = OkSock(c, Sock(a.ip, a.port), "ip")
          /\ cache' = SkipMap_insert(cache,
                         CachedSocketAddr_new(nextNode, a.ip, Sock(a.ip, a.port),
                                              record_ttl, now))
          /\ nextNode' = nextNode + 1
          /\ UNCHANGED calls
     ELSE /\ calls' = [calls EXCEPT ![c] = [IdleCall EXCEPT !.pc = "get", !.addr = a]]
          /\ UNCHANGED <<ended, cache, nextNode>>
  /\ UNCHANGED <<codecVars, orderVars>>
  /\ UNCHANGED <<now, lookups, hist, record_ttl>>

\* resolve(&self, address): the match on the address kind
Start(c, a) ==
  /\ calls[c].pc = "idle"
  /\ started < MaxStarts
  /\ started' = started + 1
  /\ IF a.kind = "ip"
     THEN /\ ended' = OkSock(c, Sock(a.ip, a.port), "ip")
          /\ UNCHANGED calls
     ELSE /\ calls' = [calls EXCEPT ![c] = [IdleCall EXCEPT !.pc = "get", !.addr = a]]
          /\ UNCHANGED ended
  /\ UNCHANGED <<codecVars, orderVars>>
  /\ UNCHANGED <<cache, now, lookups, nextNode, hist, record_ttl>>

\* if let Some(ent) = self.cache.get(name.as_str())
CacheGet(c) ==
  /\ calls[c].pc = "get"
  /\ LET ent == SkipMap_get(cache, calls[c].addr.name)
     IN  calls' = [calls EXCEPT ![c].ent = ent,
                                ![c].pc = IF ent = NoEntry THEN "call" ELSE "check"]
  /\ UNCHANGED <<codecVars, orderVars>>
  /\ UNCHANGED <<cache, now, ended, lookups, nextNode, hist, started, record_ttl>>

\* if !val.is_expired() { return Ok(val.val) } else { ent.remove() }
CacheCheck(c) ==
  /\ calls[c].pc = "check"
  /\ IF ~is_expired(calls[c].ent, now)
     THEN /\ calls' = [calls EXCEPT ![c] = IdleCall]
          /\ ended' = OkSock(c, calls[c].ent.val, "cache")
          /\ UNCHANGED cache
          /\ UNCHANGED hist
     ELSE /\ cache' = Entry_remove(cache, calls[c].ent)
          /\ calls' = [calls EXCEPT ![c].pc = "call", ![c].ent = NoEntry]
          /\ hist' = IF calls[c].ent \in cache THEN hist
                     ELSE [hist EXCEPT !.stale = calls[c].ent.id]
          /\ UNCHANGED ended
  /\ UNCHANGED <<codecVars, orderVars>>
  /\ UNCHANGED <<now, lookups, nextNode, started, record_ttl>>

\* a resolve that reserves the cache slot before it awaits the lookup
BackendCall_reserving_slot(c) ==
  /\ calls[c].pc = "call"
  /\ lookups' = [lookups EXCEPT ![calls[c].addr.name] = @ + 1]
  /\ calls' = [calls EXCEPT ![c].pc = "await"]
  /\ cache' = SkipMap_insert(cache,
                 CachedSocketAddr_new(nextNode, calls[c].addr.name, NoSock, record_ttl, now))
  /\ nextNode' = nextNode + 1
  /\ UNCHANGED <<codecVars, orderVars>>
  /\ UNCHANGED <<now, ended, hist, started, record_ttl>>

\* a resolve that joins a lookup already in flight for the same domain
BackendCall_single_flight(c) ==
  /\ calls[c].pc = "call"
  /\ lookups' =
       IF \E o \in Calls \ {c} :
            calls[o].pc = "await" /\ calls[o].addr.name = calls[c].addr.name
       THEN lookups
       ELSE [lookups EXCEPT ![calls[c].addr.name] = @ + 1]
  /\ calls' = [calls EXCEPT ![c].pc = "await"]
  /\ UNCHANGED <<codecVars, orderVars>>
  /\ UNCHANGED <<cache, now, ended, nextNode, hist, started, record_ttl>>

\* ToSocketAddrs::to_socket_addrs(&(name, port)) is invoked
BackendCall(c) ==
  /\ calls[c].pc = "call"
  /\ lookups' = [lookups EXCEPT ![calls[c].addr.name] = @ + 1]
  /\ calls' = [calls EXCEPT ![c].pc = "await"]
  /\ UNCHANGED <<codecVars, orderVars>>
  /\ UNCHANGED <<cache, now, ended, nextNode, hist, started, record_ttl>>

\* the awaited lookup completes with an answer
BackendAnswer(c, ans) ==
  /\ calls[c].pc = "await"
  /\ calls' = [calls EXCEPT ![c].pc = "resume", ![c].answer = ans]
  /\ UNCHANGED <<codecVars, orderVars>>
  /\ UNCHANGED <<cache, now, ended, lookups, nextNode, hist, started, record_ttl>>

\* taking the last address of the list instead of the first
last_addr(ans, port) == Sock(ans[Len(ans)], port)

\* res.into_iter().next()
first_addr(ans, port) == Sock(ans[1], port)

\* a resolve that remembers an empty answer as an entry without an endpoint
Resume_caching_not_found(c) ==
  /\ calls[c].pc = "resume"
  /\ LET ans == calls[c].answer
         d == calls[c].addr.name
         addr == IF ans = <<>> THEN NoSock ELSE first_addr(ans, calls[c].addr.port)
         node == CachedSocketAddr_new(nextNode, d, addr, record_ttl, now)
     IN  IF ans = <<"error">>
         THEN /\ calls' = [calls EXCEPT ![c] = IdleCall]
              /\ ended' = ErrSock(c, "io")
              /\ UNCHANGED <<cache, nextNode, hist>>
         ELSE /\ cache' = SkipMap_insert(cache, node)
              /\ nextNode' = nextNode + 1
              /\ hist' = [hist EXCEPT !.last[d] = nextNode]
              /\ IF ans = <<>>
                 THEN /\ calls' = [calls EXCEPT ![c] = IdleCall]
                      /\ ended' = ErrSock(c, "NotFound")
                 ELSE /\ calls' = [calls EXCEPT ![c].pc = "return",
                                                 ![c].wrote = nextNode, ![c].out = addr]
                      /\ UNCHANGED ended
  /\ UNCHANGED <<codecVars, orderVars>>
  /\ UNCHANGED <<now, lookups, started, record_ttl>>

\* the code after the await: `?`, then insert on Some(addr), else NotFound
Resume(c) ==
  /\ calls[c].pc = "resume"
  /\ LET ans == calls[c].answer
         d == calls[c].addr.name
     IN  IF ans = <<"error">>
         THEN /\ calls' = [calls EXCEPT ![c] = IdleCall]
              /\ ended' = ErrSock(c, "io")
              /\ UNCHANGED <<cache, nextNode, hist>>
         ELSE IF ans = <<>>
         THEN /\ calls' = [calls EXCEPT ![c] = IdleCall]
              /\ ended' = ErrSock(c, "NotFound")
              /\ UNCHANGED <<cache, nextNode, hist>>
         ELSE LET addr == first_addr(ans, calls[c].addr.port)
                  node == CachedSocketAddr_new(nextNode, d, addr, record_ttl, now)
              IN  /\ cache' = SkipMap_insert(cache, node)
                  /\ nextNode' = nextNode + 1
                  /\ hist' = [hist EXCEPT !.last[d] = nextNode]
                  /\ calls' = [calls EXCEPT ![c].pc = "return", ![c].wrote = nextNode,
                                            ![c].out = addr]
                  /\ UNCHANGED ended
  /\ UNCHANGED <<codecVars, orderVars>>
  /\ UNCHANGED <<now, lookups, started, record_ttl>>

\* return Ok(addr)
Return(c) ==
  /\ calls[c].pc = "return"
  /\ calls' = [calls EXCEPT ![c] = IdleCall]
  /\ ended' = OkSock(c, calls[c].out, "backend")
  /\ UNCHANGED <<codecVars, orderVars>>
  /\ UNCHANGED <<cache, now, lookups, nextNode, hist, started, record_ttl>>

\* the caller drops the future at its suspension point
Cancel(c) ==
  /\ calls[c].pc \in {"await", "resume"}
  /\ calls' = [calls EXCEPT ![c] = IdleCall]
  /\ ended' = ErrSock(c, "cancelled")
  /\ UNCHANGED <<codecVars, orderVars>>
  /\ UNCHANGED <<cache, now, lookups, nextNode, hist, started, record_ttl>>

\* time passes
Tick ==
  /\ now < MaxTime
  /\ now' = now + 1
  /\ UNCHANGED <<codecVars, orderVars>>
  /\ UNCHANGED <<cache, calls, ended, lookups, nextNode, hist, started, record_ttl>>

ResolverNext ==
  \/ \E c \in Calls, a \in Addresses : Start(c, a)
  \/ \E c \in Calls : CacheGet(c)
  \/ \E c \in Calls : CacheCheck(c)
  \/ \E c \in Calls : BackendCall(c)
  \/ \E c \in Calls, ans \in Answers : BackendAnswer(c, ans)
  \/ \E c \in Calls : Resume(c)
  \/ \E c \in Calls : Return(c)
  \/ \E c \in Calls : Cancel(c)
  \/ Tick

----------------------------------------------------------------------------
(* Equality, ordering and hashing: address.rs (Kind, NodeAddress),          *)
(* dns_name.rs (DnsName, derived), domain.rs (Domain, by as_str)            *)

\* <[u8] as Ord>::cmp: lexicographic, a proper prefix is Less
RECURSIVE SliceCmp(_, _)
SliceCmp(s, t) ==
  IF s = <<>> /\ t = <<>> THEN "Equal"
  ELSE IF s = <<>> THEN "Less"
  ELSE IF t = <<>> THEN "Greater"
  ELSE IF Head(s) < Head(t) THEN "Less"
  ELSE IF Head(s) > Head(t) THEN "Greater"
  ELSE SliceCmp(Tail(s), Tail(t))

\* u16::cmp
PortCmp(p, q) == IF p < q THEN "Less" ELSE IF p > q THEN "Greater" ELSE "Equal"

\* IpAddr::cmp (derived: V4 before V6, then the octets)
IpAddr_cmp(a, b) ==
  IF a.kind = b.kind THEN SliceCmp(a.bytes, b.bytes)
  ELSE IF a.kind = "v4" THEN "Less" ELSE "Greater"

\* impl Ord for Kind
Kind_cmp(a, b) ==
  CASE a.kind # "dns" /\ b.kind # "dns" -> IpAddr_cmp(a, b)
    [] a.kind = "dns" /\ b.kind = "dns" -> SliceCmp(a.bytes, b.bytes)
    [] a.kind # "dns" /\ b.kind = "dns" -> SliceCmp(a.bytes, DnsName_as_str(b.bytes))
    [] a.kind = "dns" /\ b.kind # "dns" -> SliceCmp(DnsName_as_str(a.bytes), b.bytes)

\* impl Ord for NodeAddress
NodeAddress_cmp(a, b) ==
  IF Kind_cmp(a, b) = "Equal" THEN PortCmp(a.port, b.port) ELSE Kind_cmp(a, b)

\* #[derive(PartialEq)] on NodeAddress, Kind, DnsName
NodeAddress_eq(a, b) == a.kind = b.kind /\ a.bytes = b.bytes /\ a.port = b.port

\* #[derive(Hash)] on NodeAddress: what is fed to the hasher
NodeAddress_hash(a) == <<a.kind, a.bytes, a.port>>

\* impl PartialEq / Ord / Hash for Domain: all three go through as_str()
Domain_eq(a, b) == Domain_as_str(a) = Domain_as_str(b)
Domain_cmp(a, b) == SliceCmp(Domain_as_str(a), Domain_as_str(b))
Domain_hash(a) == Domain_as_str(a)

\* eq, cmp and hash of a picked value, by its type
ValueEq(a, b) == IF a.kind = "domain" THEN Domain_eq(a, b) ELSE NodeAddress_eq(a, b)
ValueCmp(a, b) == IF a.kind = "domain" THEN Domain_cmp(a, b) ELSE NodeAddress_cmp(a, b)
ValueHash(a) == IF a.kind = "domain" THEN Domain_hash(a) ELSE NodeAddress_hash(a)

\* "a", "a.", "abcd", "abcd.", 23 'a's with and without the dot
OrderNames ==
  { <<CH_a>>, <<CH_a, DOT>>, <<CH_a, CH_a + 1, CH_c, CH_a + 3>>,
    <<CH_a, CH_a + 1, CH_c, CH_a + 3, DOT>>, Pad(DNS_INLINE),
    Pad(DNS_INLINE) \o <<DOT>> }

\* "97.98.99.100", "200.0.0.1", "::1"
OrderIps ==
  { <<CH_0 + 9, CH_0 + 7, DOT, CH_0 + 9, CH_0 + 8, DOT, CH_0 + 9, CH_0 + 9, DOT,
      CH_1, CH_0, CH_0>>,
    <<CH_0 + 2, CH_0, CH_0, DOT, CH_0, DOT, CH_0, DOT, CH_1>>,
    <<COLON, COLON, CH_1>> }

NoOrd == [st |-> "none"]

OrderInit ==
  /\ picked = <<>>
  /\ ord = NoOrd

\* one more address is built by NodeAddress::try_from((h, p))
PickAddr(h, p) ==
  /\ UNCHANGED <<codecVars, resolverVars>>
  /\ Len(picked) < 3
  /\ \A i \in 1..Len(picked) : IsAddr(picked[i].val)
  /\ try_from_host(h, p).st = "ok"
  /\ picked' = Append(picked, [text |-> h, val |-> try_from_host(h, p).val])
  /\ ord' = NoOrd

\* one more domain is built by Domain::try_from(d)
PickDomain(d) ==
  /\ UNCHANGED <<codecVars, resolverVars>>
  /\ Len(picked) < 2
  /\ \A i \in 1..Len(picked) : picked[i].val.kind = "domain"
  /\ Domain_try_from_inner(d, ToAsciiErr).st = "ok"
  /\ picked' = Append(picked, [text |-> d, val |-> Domain_try_from_inner(d, ToAsciiErr).val])
  /\ ord' = NoOrd

\* a == b, a.cmp(&b), b.cmp(&a) and the two hashes, for the first two values
Compare ==
  /\ UNCHANGED <<codecVars, resolverVars>>
  /\ Len(picked) = 2
  /\ ord.st = "none"
  /\ LET a == picked[1].val
         b == picked[2].val
     IN  ord' = [st |-> "pair", eq |-> ValueEq(a, b), ab |-> ValueCmp(a, b),
                 ba |-> ValueCmp(b, a), hash_eq |-> ValueHash(a) = ValueHash(b)]
  /\ UNCHANGED picked

\* a.cmp(&b), b.cmp(&c) and a.cmp(&c) for three addresses
CompareThree ==
  /\ UNCHANGED <<codecVars, resolverVars>>
  /\ Len(picked) = 3
  /\ ord.st = "none"
  /\ LET a == picked[1].val
         b == picked[2].val
         c == picked[3].val
     IN  ord' = [st |-> "triple", ab |-> ValueCmp(a, b), bc |-> ValueCmp(b, c),
                 ac |-> ValueCmp(a, c)]
  /\ UNCHANGED picked

\* the values are dropped
Drop ==
  /\ UNCHANGED <<codecVars, resolverVars>>
  /\ picked # <<>>
  /\ picked' = <<>>
  /\ ord' = NoOrd

OrderNext ==
  \/ \E h \in OrderNames \cup OrderIps, p \in Ports : PickAddr(h, p)
  \/ \E d \in OrderNames : PickDomain(d)
  \/ Compare
  \/ CompareThree
  \/ Drop

----------------------------------------------------------------------------

Init == CodecInit /\ ResolverInit /\ OrderInit

Next == CodecNext \/ ResolverNext \/ OrderNext

\* the codec machine alone, under a resolver built with the largest ttl
InitCodec == CodecInit /\ ResolverInit /\ OrderInit /\ record_ttl = MaxTtl

SpecCodec == InitCodec /\ [][CodecNext]_vars
SpecResolver == Init /\ [][ResolverNext]_vars
SpecOrder == InitCodec /\ [][OrderNext]_vars
Spec == Init /\ [][Next]_vars

----------------------------------------------------------------------------
(* Properties of the codecs (checked under SpecCodec)                       *)

\* the buffer holds exactly what val.encode wrote into a dst of encoded_len(val)
SrcIsEncodingOfVal == IsAddr(val) /\ src = encode_dst(val, encoded_len(val))

\* C1: for every constructible address v (IPv4, IPv6 or domain, domains given
\* with a trailing dot included), NodeAddress::decode of the bytes that
\* v.encode wrote succeeds and returns (encoded_len(v), v).
C1_DecodeEncodeRoundTrip ==
  (op = "decode" /\ SrcIsEncodingOfVal)
    => (res.st = "ok" /\ res.n = encoded_len(val) /\ res.val = val)

\* C2: on the same bytes, decode_from_reader and decode_from_async_reader
\* succeed exactly when decode succeeds, and then return the same count and
\* the same address.
C2_StreamDecodeMatchesBufferDecode ==
  op \in {"decode_from_reader", "decode_from_async_reader"}
    => LET buffered == decode(src)
       IN  /\ (res.st = "ok") <=> (buffered.st = "ok")
           /\ res.st = "ok" => (res.n = buffered.n /\ res.val = buffered.val)

\* C3: a successful encode returns encoded_len(v) and stores exactly that many
\* bytes: 7 for IPv4, 19 for IPv6, 4 + L for a domain stored in L bytes, and
\* 2 + len for a NodeId of len bytes; an encode into a dst of at least
\* encoded_len(v) bytes never indexes past dst.
C3_EncodedLenIsBytesWritten ==
  /\ op = "encode" =>
       /\ res.st # "panic"
       /\ res.st = "ok" =>
            /\ res.n = encoded_len(val)
            /\ res.w = res.n
            /\ val.kind = "v4" => res.w = 7
            /\ val.kind = "v6" => res.w = 19
            /\ val.kind = "dns" => res.w = 4 + Len(val.bytes)
  /\ op = "id_encode" =>
       /\ res.st # "panic"
       /\ res.st = "ok" =>
            /\ res.n = id_encoded_len(val)
            /\ res.w = res.n
            /\ res.w = 2 + Len(val.bytes)

\* a domain stored as a fully qualified name of more than 23 bytes was encoded
C3_Witness ==
  /\ op = "encode"
  /\ res.st = "ok"
  /\ val.kind = "dns"
  /\ Len(val.bytes) > DNS_INLINE
  /\ EndsWithDot(val.bytes)
  /\ res.w = 4 + Len(val.bytes)
  /\ Len(src) = res.w

DecodeOps ==
  {"decode", "decode_from_reader", "decode_from_async_reader", "sa_decode",
   "sa_decode_from_reader", "id_decode", "id_decode_from_reader"}

\* C4: whatever the bytes, every decode entry point of NodeAddress, SocketAddr
\* and NodeId, buffer or stream, ends in Ok or Err and never in a panic.
C4_DecodeNeverPanics == op \in DecodeOps => res.st # "panic"

----------------------------------------------------------------------------
(* Properties of the resolver (checked under SpecResolver)                  *)

\* call c takes a step
Steps(c) == calls'[c] # calls[c]

\* the backend answered call c with a non-empty list of addresses
HasAddrs(c) == calls[c].answer # <<>> /\ calls[c].answer # <<"error">>

\* C5: a resolve of a domain whose entry is in the cache and has not expired
\* (now - born <= ttl) returns the cached endpoint, without invoking the
\* backend and without changing the cache.
C5_FreshEntryServedFromCache ==
  [][\A c \in Calls :
       /\ (calls[c].pc = "get" /\ Steps(c)
             /\ \E e \in cache : e.key = calls[c].addr.name)
            => /\ calls'[c].pc = "check"
               /\ calls'[c].ent \in cache
               /\ calls'[c].ent.key = calls[c].addr.name
               /\ cache' = cache
               /\ lookups' = lookups
       /\ (calls[c].pc = "check" /\ Steps(c)
             /\ now - calls[c].ent.born <= calls[c].ent.ttl)
            => /\ ended' = OkSock(c, calls[c].ent.val, "cache")
               /\ calls'[c] = IdleCall
               /\ cache' = cache
               /\ lookups' = lookups]_vars

\* a call was served from the cache exactly ttl after the entry was born, and
\* the backend has been invoked once for that domain
C5_Witness ==
  /\ ended.st = "ok"
  /\ ended.site = "cache"
  /\ \E e \in cache :
       /\ e.val = ended.sock
       /\ e.ttl > 0
       /\ now - e.born = e.ttl
       /\ lookups[e.key] = 1

\* C6: a resolve that reads an entry more than ttl after it was born removes
\* that entry and invokes the backend again; an entry that enters the map is
\* born at the time of its insert; an entry leaves the map only when a resolve
\* that read it expired removes it or when an insert for its domain replaces
\* it, and never because time passes.
C6_ExpiredEntryEvictedOnRead ==
  [][/\ \A c \in Calls :
          /\ (calls[c].pc = "check" /\ Steps(c)
                /\ now - calls[c].ent.born > calls[c].ent.ttl)
               => /\ cache' = cache \ {calls[c].ent}
                  /\ calls'[c].pc = "call"
                  /\ ended' = ended
          /\ (calls[c].pc = "call" /\ Steps(c))
               => /\ calls'[c].pc = "await"
                  /\ lookups'[calls[c].addr.name] = lookups[calls[c].addr.name] + 1
     /\ \A e \in cache' \ cache : e.born = now /\ e.ttl = record_ttl
     /\ \A e \in cache \ cache' :
          \/ \E c \in Calls : /\ calls[c].pc = "check"
                               /\ calls[c].ent = e
                               /\ now - e.born > e.ttl
          \/ \E f \in cache' \ cache : f.key = e.key
     /\ now' # now => cache' = cache]_vars

\* the second of two calls has found the entry of the first expired and has
\* removed it; its backend lookup comes next
C6_Witness ==
  \E c \in Calls :
    /\ calls[c].pc = "call"
    /\ started = 2
    /\ nextNode = 2
    /\ lookups[calls[c].addr.name] = 1
    /\ cache = {}
    /\ now > record_ttl

\* C7: after a miss answered with a non-empty list, resolve inserts the entry
\* {first address of the list, ttl = record_ttl} and only then returns, and
\* what it returns is that first address.
C7_FirstAddressInsertedBeforeReturn ==
  [][\A c \in Calls :
       /\ (calls[c].pc = "resume" /\ HasAddrs(c) /\ Steps(c)
             /\ ended' # ErrSock(c, "cancelled"))
            => /\ calls'[c].pc = "return"
               /\ calls'[c].out = Sock(calls[c].answer[1], calls[c].addr.port)
               /\ ended' = ended
               /\ \E e \in cache' \ cache :
                    /\ e.key = calls[c].addr.name
                    /\ e.val = Sock(calls[c].answer[1], calls[c].addr.port)
                    /\ e.ttl = record_ttl
                    /\ e.id = calls'[c].wrote
       /\ (ended' # ended /\ ended'.call = c /\ ended'.site = "backend")
            => /\ calls[c].pc = "return"
               /\ calls[c].wrote # 0
               /\ ended'.sock = Sock(calls[c].answer[1], calls[c].addr.port)]_vars

\* a call has inserted the first address of a two-address answer and has not
\* returned yet
C7_Witness ==
  \E c \in Calls :
    /\ calls[c].pc = "return"
    /\ Len(calls[c].answer) = 2
    /\ \E e \in cache :
         /\ e.id = calls[c].wrote
         /\ e.val = calls[c].out
         /\ e.val.ip = calls[c].answer[1]
         /\ e.ttl = record_ttl

\* a cache entry with every field set, as of time t
Complete(e, t) ==
  /\ e.key \in Domains
  /\ e.val.ip \in {"ip1", "ip2"}
  /\ e.val.port \in Ports
  /\ e.born \in 0..t
  /\ e.ttl = record_ttl

\* C8: a call dropped at its suspension point writes nothing to the cache;
\* every entry of the cache is complete and was inserted by a call that the
\* backend answered with a non-empty list.
C8_CancelLeavesNoPartialEntry ==
  [][/\ \A c \in Calls :
          (calls[c].pc \in {"await", "resume"} /\ calls'[c] = IdleCall
            /\ ended' = ErrSock(c, "cancelled"))
            => cache' = cache
     /\ \A e \in cache' : Complete(e, now')
     /\ \A e \in cache' \ cache :
          \E c \in Calls :
            /\ calls[c].pc = "resume"
            /\ HasAddrs(c)
            /\ calls'[c].pc = "return"
            /\ e.key = calls[c].addr.name
            /\ e.val = Sock(calls[c].answer[1], calls[c].addr.port)]_vars

\* the only call made so far invoked the backend and was dropped before the
\* answer was used: the cache is empty
C8_Witness ==
  /\ ended.st = "cancelled"
  /\ started = 1
  /\ \E d \in Domains : lookups[d] = 1
  /\ \A c \in Calls : calls[c] = IdleCall
  /\ cache = {}

\* C9: whatever the interleaving of the calls, the cache holds at most one
\* entry per domain, and the entry it holds for a domain is the one written by
\* the last insert for that domain.
C9_OneEntryPerDomainLastWriterWins ==
  /\ \A d \in Domains : Cardinality({e \in cache : e.key = d}) <= 1
  /\ \A e \in cache : e.id = hist.last[e.key]

\* two calls missed on the same domain at time 0, both inserted, both are
\* over, and the cache holds the node of the second insert
C9_Witness ==
  /\ now = 0
  /\ started = 2
  /\ nextNode = 3
  /\ \A c \in Calls : calls[c] = IdleCall
  /\ \E d \in Domains :
       /\ lookups[d] = 2
       /\ hist.last[d] = 2
       /\ \E e \in cache : e.key = d /\ e.id = 2

\* the calls whose backend lookup for domain d is in flight or just answered
InFlight(d) ==
  {c \in Calls : calls[c].pc \in {"await", "resume"} /\ calls[c].addr.name = d}

\* C10: concurrent misses on one domain are not de-duplicated: every call in
\* flight has made a backend invocation of its own, so N calls that all missed
\* before any insert make N lookups for the one domain.
C10_EveryMissInvokesBackend ==
  \A d \in Domains : Cardinality(InFlight(d)) <= lookups[d]

\* every caller awaits a lookup of the same domain, nothing was inserted yet,
\* and the backend was invoked once per caller
C10_Witness ==
  \E d \in Domains :
    /\ \A c \in Calls : calls[c].pc = "await" /\ calls[c].addr.name = d
    /\ lookups[d] = Cardinality(Calls)
    /\ nextNode = 1
    /\ cache = {}

\* C11: when the backend answers with zero addresses, resolve ends with the
\* NotFound error and inserts nothing; when the backend fails, resolve ends
\* with that error and inserts nothing.
C11_NoAddressIsNotFoundNothingCached ==
  [][\A c \in Calls :
       /\ (calls[c].pc = "resume" /\ calls[c].answer = <<>> /\ Steps(c)
             /\ ended' # ErrSock(c, "cancelled"))
            => /\ ended' = ErrSock(c, "NotFound")
               /\ calls'[c] = IdleCall
               /\ cache' = cache
               /\ nextNode' = nextNode
       /\ (calls[c].pc = "resume" /\ calls[c].answer = <<"error">> /\ Steps(c)
             /\ ended' # ErrSock(c, "cancelled"))
            => /\ ended' = ErrSock(c, "io")
               /\ calls'[c] = IdleCall
               /\ cache' = cache
               /\ nextNode' = nextNode]_vars

\* the only call made so far invoked the backend, got no address and ended
\* with NotFound: the cache is empty
C11_Witness ==
  /\ ended.st = "NotFound"
  /\ started = 1
  /\ \E d \in Domains : lookups[d] = 1
  /\ nextNode = 1
  /\ cache = {}

\* the socket addresses of the Ip-kind addresses handed to resolve
IpSocks == {Sock(a.ip, a.port) : a \in {x \in Addresses : x.kind = "ip"}}

\* C12: resolve of an Ip-kind address returns the socket address of that ip
\* and port at once; the cache, the backend and the other calls are untouched,
\* and no call enters the cache path with such an address.
C12_IpAddressPassesThrough ==
  [][/\ (ended' # ended /\ ended'.site = "ip") => started' = started + 1
     /\ started' # started
          => \/ /\ ended'.site = "ip"
                /\ ended'.st = "ok"
                /\ ended'.sock \in IpSocks
                /\ calls[ended'.call].pc = "idle"
                /\ calls' = calls
                /\ cache' = cache
                /\ lookups' = lookups
                /\ nextNode' = nextNode
             \/ /\ ended' = ended
                /\ cache' = cache
                /\ \E c \in Calls : /\ calls[c].pc = "idle"
                                     /\ calls'[c].pc = "get"
                                     /\ calls'[c].addr.kind = "domain"]_vars

\* an Ip-kind address was resolved while an entry was in the cache and one
\* backend lookup had been made
C12_Witness ==
  /\ ended.site = "ip"
  /\ ended.sock = Sock("ip1", 80)
  /\ started = 2
  /\ Cardinality(cache) = 1
  /\ \E d \in Domains : lookups[d] = 1

\* the bytes a successful encode stored (dst may be longer than encoded_len)
Written == SubSeq(src, 1, res.w)

\* the two bytes that close an encoded address
LastTwo(s) == SubSeq(s, Len(s) - 1, Len(s))

\* C13: encode writes the tag byte first: 4 and the 4 IPv4 octets, 6 and the
\* 16 IPv6 octets, or 0, a one-byte length L and the L bytes of the canonical
\* FQDN (the name ending in a single '.'); the port is the final two bytes,
\* big-endian.
C13_EncodeWireLayout ==
  (op = "encode" /\ res.st = "ok") =>
    /\ LastTwo(Written) = <<val.port \div 256, val.port % 256>>
    /\ val.kind = "v4" => SubSeq(Written, 1, 5) = <<4>> \o val.bytes
    /\ val.kind = "v6" => SubSeq(Written, 1, 17) = <<6>> \o val.bytes
    /\ val.kind = "dns" =>
         LET fqdn == trim_end_dots(val.bytes) \o <<DOT>>
         IN  /\ Written[1] = 0
             /\ Written[2] = Len(fqdn)
             /\ Len(Written) = 2 + Len(fqdn) + 2
             /\ SubSeq(Written, 3, 2 + Len(fqdn)) = fqdn

\* "www.example.com:8080"
WwwExampleCom8080 ==
  WwwExampleCom \o <<COLON, CH_0 + 8, CH_0, CH_0 + 8, CH_0>>

\* the address parsed from "www.example.com:8080" was encoded
ParsedWwwEncoded ==
  /\ op = "encode"
  /\ res.st = "ok"
  /\ from_str(WwwExampleCom8080).st = "ok"
  /\ val = from_str(WwwExampleCom8080).val

\* C14: the address parsed from "www.example.com:8080" encodes to exactly
\* [0x00, 0x11, the bytes of the FQDN "www.example.com.", 0x1F, 0x90]: tag 0,
\* length 17, the FQDN, port 8080 big-endian.
C14_WwwExampleComEncoding ==
  ParsedWwwEncoded
    => Written = <<0, 17>> \o WwwExampleCom \o <<DOT>> \o <<31, 144>>

AddrDecodeOps == {"decode", "decode_from_reader", "decode_from_async_reader"}

\* C15: decoding any non-empty byte sequence whose first byte is not 0, 4 or 6
\* is rejected with UnknownAddressTag carrying that byte, by the buffer decode
\* and by the stream decodes, whatever the number of bytes after the tag.
C15_UnknownTagRejected ==
  (op \in AddrDecodeOps /\ src # <<>> /\ src[1] \notin {0, 4, 6})
    => (res.st = "err" /\ res.err = "UnknownAddressTag" /\ res.n = src[1])

StreamOps == {"decode_from_reader", "decode_from_async_reader"}

\* the stream begins with the bytes val.encode wrote
StartsWithEncodingOfVal ==
  /\ IsAddr(val)
  /\ Len(src) >= encoded_len(val)
  /\ SubSeq(src, 1, encoded_len(val)) = encode_stores(val)

\* C16: the stream decode of an address consumes from the reader exactly the
\* encoded_len bytes of the address it decodes: the tag, then only as many
\* further bytes as the variant's payload needs, so the bytes that follow the
\* encoded address in the stream are left unread.
C16_StreamDecodeConsumesEncodedLen ==
  op \in StreamOps =>
    /\ res.st = "ok" => (res.w = encoded_len(res.val) /\ res.w = reader_taken(src))
    /\ StartsWithEncodingOfVal => reader_taken(src) <= encoded_len(val)

\* C17: encoding an address or a NodeId into a buffer shorter than encoded_len
\* (one byte short, or empty) fails with EncodeBufferTooSmall and writes
\* nothing to the buffer (dst was handed over zero-filled).
C17_ShortBufferRejectedUntouched ==
  /\ (op = "encode" /\ Len(src) < encoded_len(val))
       => (res = Err("EncodeBufferTooSmall") /\ src = Rep(0, Len(src)))
  /\ (op = "id_encode" /\ Len(src) < id_encoded_len(val))
       => (res = Err("EncodeBufferTooSmall") /\ src = Rep(0, Len(src)))

\* a domain address was encoded into a buffer one byte short
C17_Witness ==
  /\ op = "encode"
  /\ val.kind = "dns"
  /\ Len(src) = encoded_len(val) - 1
  /\ res.err = "EncodeBufferTooSmall"

\* the name without its one trailing dot, and the positions that bound labels
Body(s) == IF EndsWithDot(s) THEN SubSeq(s, 1, Len(s) - 1) ELSE s
Cuts(b) == {0, Len(b) + 1} \cup {i \in 1..Len(b) : b[i] = DOT}

\* the dot-separated labels of b (an empty one where two cuts are adjacent)
LabelsOf(b) ==
  { SubSeq(b, p[1] + 1, p[2] - 1) :
      p \in { q \in Cuts(b) \X Cuts(b) :
                /\ q[1] < q[2]
                /\ \A c \in Cuts(b) : ~(q[1] < c /\ c < q[2]) } }

FinalLabel(s) ==
  LET b == Body(s)
      last == CHOOSE c \in Cuts(b) \ {Len(b) + 1} :
                \A d \in Cuts(b) \ {Len(b) + 1} : d <= c
  IN  SubSeq(b, last + 1, Len(b))

OnlyDigits(l) == l # <<>> /\ \A i \in 1..Len(l) : l[i] \in 48..57

LabelByte(b) == b \in (65..90) \cup (97..122) \cup (48..57) \cup {95, 45}

GoodLabel(l) ==
  /\ Len(l) \in 1..63
  /\ \A i \in 1..Len(l) : LabelByte(l[i])
  /\ l[1] # 45
  /\ l[Len(l)] # 45

\* the root, or 1..253 bytes of good labels separated by single dots, with at
\* most one trailing dot
WellFormedName(s) ==
  \/ s = <<DOT>>
  \/ /\ Len(s) \in 1..253
     /\ \A l \in LabelsOf(Body(s)) : GoodLabel(l)

ValidatedAscii == op = "domain_try_from" /\ is_ascii(src)

\* C18: for ASCII inputs whose final label is not made only of digits, the
\* validator accepts the input if and only if it is the root "." or it is 1 to
\* 253 bytes long, a sequence of labels separated by single dots with at most
\* one trailing dot, every label 1 to 63 bytes of [A-Za-z0-9_-], none starting
\* or ending with '-'.
C18_ValidatorAcceptsWellFormedNames ==
  (ValidatedAscii /\ ~OnlyDigits(FinalLabel(src)))
    => ((res.st = "ok") <=> WellFormedName(src))

\* a name of 253 bytes with labels of 63 bytes was accepted
C18_Witness ==
  /\ ValidatedAscii
  /\ Len(src) = 253
  /\ SubSeq(src, 1, 64) = Label63 \o <<DOT>>
  /\ res.st = "ok"

\* C19: a name whose final label consists only of digits is rejected, both
\* without a trailing dot ("1.2.3.4", "x.1") and with one ("123.", "x.1."),
\* while all-digit labels before the final label are accepted ("1.2.3.4.com").
C19_NumericFinalLabelRejected ==
  ValidatedAscii =>
    /\ OnlyDigits(FinalLabel(src)) => res.st = "err"
    /\ (/\ WellFormedName(src)
        /\ ~OnlyDigits(FinalLabel(src))
        /\ \E l \in LabelsOf(Body(src)) : OnlyDigits(l)) => res.st = "ok"

\* "x.1." was rejected
C19_Witness ==
  /\ ValidatedAscii
  /\ src = <<120, DOT, CH_1, DOT>>
  /\ res.st = "err"

\* ends with one '.', and only one
EndsWithOneDot(s) == EndsWithDot(s) /\ ~EndsWithDot(SubSeq(s, 1, Len(s) - 1))

\* C20: every successfully constructed domain value stores its name with
\* exactly one trailing dot, whether or not the input had one: fqdn_str()
\* (terminate_str() for the DnsName of an address) ends with exactly one '.',
\* and as_str() is that string without the dot.
C20_StoredNameHasOneTrailingDot ==
  /\ val.kind = "domain" =>
       /\ EndsWithOneDot(Domain_fqdn_str(val))
       /\ Domain_as_str(val) \o <<DOT>> = Domain_fqdn_str(val)
  /\ val.kind = "dns" =>
       /\ EndsWithOneDot(terminate_str(val.bytes))
       /\ DnsName_as_str(val.bytes) \o <<DOT>> = terminate_str(val.bytes)

----------------------------------------------------------------------------
(* Properties of equality and ordering (checked under SpecOrder)            *)

\* two names were compared: two Domain values, or the DnsName values of two
\* addresses with the same port
NamesCompared ==
  /\ ord.st = "pair"
  /\ picked[1].val.kind \in {"domain", "dns"}
  /\ picked[2].val.kind = picked[1].val.kind
  /\ picked[1].val.port = picked[2].val.port

\* C21: two domain values built from inputs that differ only by a trailing
\* dot are equal, compare as Equal and hash identically: equality, ordering
\* and hash of a domain depend only on as_str().
C21_DomainEqualityIgnoresTrailingDot ==
  NamesCompared =>
    LET same_input == Body(picked[1].text) = Body(picked[2].text)
        same_str == trim_end_dots(picked[1].val.bytes) = trim_end_dots(picked[2].val.bytes)
    IN  /\ (same_input \/ same_str) => (ord.eq /\ ord.ab = "Equal" /\ ord.hash_eq)
        /\ ord.eq <=> same_str
        /\ ord.ab = SliceCmp(trim_end_dots(picked[1].val.bytes),
                             trim_end_dots(picked[2].val.bytes))

Reverse(o) == CASE o = "Less" -> "Greater" [] o = "Greater" -> "Less" [] OTHER -> o

\* C22: the ordering of addresses is a total order that agrees with equality:
\* cmp(a, b) is Equal exactly when a == b, cmp(a, b) is the reverse of
\* cmp(b, a), and a < b with b < c implies a < c (IPv4, IPv6 and domain kinds
\* mixed).
C22_AddressOrderIsTotal ==
  /\ (ord.st = "pair" /\ IsAddr(picked[1].val)) =>
       /\ (ord.ab = "Equal") <=> ord.eq
       /\ ord.ab = Reverse(ord.ba)
  /\ ord.st = "triple" =>
       ((ord.ab = "Less" /\ ord.bc = "Less") => ord.ac = "Less")

----------------------------------------------------------------------------
(* Properties of NodeId (checked under SpecCodec)                           *)

IdDecodeOps == {"id_decode", "id_decode_from_reader"}

\* the length that the two-byte prefix of src declares
Declared == src[1] * 256 + src[2]

\* C23: every NodeId, however it was obtained (new, from_str, try_from of
\* bytes, Vec or String, buffer decode, stream decode), holds between 1 and
\* 512 bytes: the empty string is rejected with Empty, a longer one with
\* TooLarge, and no operation yields an empty or oversized id.
C23_NodeIdLengthWithinBounds ==
  /\ val.kind = "id" => Len(val.bytes) \in 1..512
  /\ (res.st = "ok" /\ res.val.kind = "id") => Len(res.val.bytes) \in 1..512
  /\ (op = "id_try_from" /\ from_utf8_ok(src)) =>
       /\ src = <<>> => res = Err("Empty")
       /\ Len(src) > 512 => res = ErrN("TooLarge", Len(src))
       /\ Len(src) \in 1..512 => (res.st = "ok" /\ res.val.bytes = src)
  /\ (op \in IdDecodeOps /\ Len(src) >= 2) =>
       /\ Declared = 0 => res = Err("Empty")
       /\ (Declared > 512 /\ Len(src) >= 2 + Declared) => res = ErrN("TooLarge", Declared)

\* a stream whose length prefix is zero was refused as Empty
C23_Witness ==
  /\ op = "id_decode_from_reader"
  /\ Len(src) >= 2
  /\ Declared = 0
  /\ res.err = "Empty"

\* C24: the buffer decode of a NodeId fails with Corrupted when fewer than 2
\* bytes are given or when the 2-byte big-endian length prefix exceeds the
\* number of bytes that follow it, and with Utf8Error when the payload of the
\* declared length is not valid UTF-8.
C24_IdDecodeRejectsBadInput ==
  op = "id_decode" =>
    /\ Len(src) < 2 => res = Err("Corrupted")
    /\ (Len(src) >= 2 /\ Declared > Len(src) - 2) => res = Err("Corrupted")
    /\ (/\ Len(src) >= 2
        /\ Declared <= Len(src) - 2
        /\ ~from_utf8_ok(SubSeq(src, 3, 2 + Declared))) => res = Err("Utf8Error")

\* an id cut short by the loss of its last bytes was refused as Corrupted
C24_Witness ==
  /\ op = "id_decode"
  /\ val.kind = "id"
  /\ Len(src) >= 2
  /\ Declared = Len(val.bytes)
  /\ Declared > Len(src) - 2
  /\ res.err = "Corrupted"

\* src begins with the bytes that val.encode wrote for the NodeId val
StartsWithEncodingOfId ==
  /\ val.kind = "id"
  /\ Len(src) >= 2 + Len(val.bytes)
  /\ SubSeq(src, 1, 2 + Len(val.bytes))
       = <<Len(val.bytes) \div 256, Len(val.bytes) % 256>> \o val.bytes

\* C25: for every valid NodeId id, the encoding is the 2-byte big-endian
\* length followed by the raw bytes of id, and both the buffer decode and the
\* stream decode of that encoding return (encoded_len(id), id); the stream
\* decode accepts exactly the byte sequences the buffer decode accepts.
C25_IdRoundTripAndStreamAgreement ==
  /\ (op = "id_encode" /\ res.st = "ok") =>
       (res.w = 2 + Len(val.bytes) /\ StartsWithEncodingOfId)
  /\ (op \in IdDecodeOps /\ StartsWithEncodingOfId) =>
       (res.st = "ok" /\ res.n = id_encoded_len(val) /\ res.val = val)
  /\ op \in IdDecodeOps =>
       LET buffered == id_decode(src)
           streamed == id_decode_from_reader(src)
       IN  /\ (buffered.st = "ok") <=> (streamed.st = "ok")
           /\ buffered.st = "ok" =>
                (buffered.n = streamed.n /\ buffered.val = streamed.val)

\* an id of MAX_SIZE bytes came back from the stream decode of its encoding
C25_Witness ==
  /\ op = "id_decode_from_reader"
  /\ StartsWithEncodingOfId
  /\ Len(val.bytes) = MAX_SIZE
  /\ res.st = "ok"
  /\ res.val = val

----------------------------------------------------------------------------
(* Properties of the text form (checked under SpecCodec)                    *)

\* C26: for every address a, parsing a.to_string() yields an address equal to
\* a: Display prints a domain without its trailing dot, then ':' and the
\* port, and since no accepted domain contains ':', splitting the text at its
\* last ':' recovers the same host and the same port.
C26_DisplayParseRoundTrip ==
  op = "reparse" =>
    /\ val.kind = "dns" =>
         /\ src = trim_end_dots(val.bytes) \o <<COLON>> \o DecText(val.port)
         /\ LastColon(src) = Len(trim_end_dots(val.bytes)) + 1
    /\ res.st = "ok"
    /\ NodeAddress_eq(res.val, val)

----------------------------------------------------------------------------
(* Properties of the resolver's answers and cache entries (checked under   *)
(* SpecResolver)                                                            *)

\* C27: the socket address returned by resolve for a Domain address always
\* carries the port of the address being resolved, also when the answer is
\* served from the cache after an earlier resolve of the same domain with a
\* different port.
C27_ResolvedPortIsRequestedPort ==
  [][\A c \in Calls :
       (calls[c].pc \in {"check", "return"} /\ calls'[c].pc = "idle"
          /\ ended'.call = c /\ ended'.st = "ok")
         => ended'.sock.port = calls[c].addr.port]_vars

\* C28: the lazy eviction step of resolve removes only the expired entry that
\* the same call read: if another resolve call replaces the entry of that
\* domain with a fresh one between the read and the removal, the fresh entry
\* is not removed by the eviction.
C28_EvictionRemovesOnlyTheEntryRead ==
  [][\A c \in Calls :
       (calls[c].pc = "check" /\ Steps(c))
         => /\ cache \ cache' \subseteq {calls[c].ent}
            /\ \A e \in cache :
                 (e.key = calls[c].ent.key /\ e.id # calls[c].ent.id) => e \in cache']_vars

\* a call found the entry it had read expired and already replaced: its
\* remove() unlinked nothing, and the entry of the later insert is still the
\* entry of that domain, not yet expired
C28_Witness ==
  \E c \in Calls :
    /\ calls[c].pc = "call"
    /\ hist.stale = 1
    /\ \E e \in cache :
         /\ e.key = calls[c].addr.name
         /\ e.id = 2
         /\ ~is_expired(e, now)

\* the first addresses of the lists the backend can answer with
FirstAddresses == {ans[1] : ans \in {a \in Answers : a # <<>> /\ a # <<"error">>}}

\* the ports under which domain d is handed to resolve
PortsAsked(d) == {a.port : a \in {x \in Addresses : x.kind = "domain" /\ x.name = d}}

\* C29: after any sequence and interleaving of resolve calls, every cache
\* entry stored under a domain holds an endpoint that the backend returned as
\* the first address of a lookup of that same domain, and its ttl equals the
\* record_ttl the resolver was built with.
C29_EntriesHoldFirstLookupAddress ==
  \A e \in cache :
    /\ e.key \in Domains
    /\ lookups[e.key] >= 1
    /\ e.val.ip \in FirstAddresses
    /\ e.val.port \in PortsAsked(e.key)
    /\ e.ttl = record_ttl
    /\ \A c \in Calls :
         calls[c].wrote = e.id
           => /\ e.key = calls[c].addr.name
              /\ e.val = Sock(calls[c].answer[1], calls[c].addr.port)

\* three calls are over, two of them interleaved on one domain and one on the
\* other: three inserts were made and each domain has its entry, with a
\* positive ttl
C29_Witness ==
  /\ started = 3
  /\ nextNode = 4
  /\ record_ttl > 0
  /\ \A c \in Calls : calls[c] = IdleCall
  /\ \A d \in Domains : lookups[d] >= 1 /\ \E e \in cache : e.key = d
  /\ \E d \in Domains : lookups[d] = 2 /\ hist.last[d] > 2

----------------------------------------------------------------------------
(* Canonical form of the wire encoding (checked under SpecCodec)            *)

\* C30: the Address wire encoding is canonical: for every byte sequence that
\* decode accepts, encoding the decoded address reproduces exactly the bytes
\* that decode consumed; in particular a tag-0 payload always decodes to a
\* Domain-kind address, never to an Ip-kind one.
C30_WireEncodingIsCanonical ==
  (op = "decode" /\ res.st = "ok") =>
    /\ res.n <= Len(src)
    /\ encode(res.val, res.n).st = "ok"
    /\ encode_stores(res.val) = SubSeq(src, 1, res.n)
    /\ src[1] = 0 => res.val.kind = "dns"

====
